---- MODULE Spec2Model ----
(***************************************************************************)
(* H.264 Annex-B parser: start-code scanner, NAL header, EBSP->RBSP,       *)
(* Exp-Golomb reader, SPS / PPS / slice-header / SEI decoders, the         *)
(* access-unit builder and the AnnexBParser pull API, as a state machine.  *)
(* Bytes are naturals in 0..255; a byte string is a sequence of bytes.     *)
(***************************************************************************)
EXTENDS Integers, Sequences, FiniteSets, TLC

(***************************************************************************)
(* Generic helpers                                                         *)
(***************************************************************************)
Slice(s, from, to) == [i \in 1..(to - from) |-> s[from + i]]

RECURSIVE Flatten(_)
Flatten(ss) == IF ss = <<>> THEN <<>> ELSE Head(ss) \o Flatten(Tail(ss))

\* bit k (0 = most significant) of a byte
Bit(byte, k) == (byte \div (2 ^ (7 - k))) % 2

(***************************************************************************)
(* bitreader.rs : BitReader.  A reader carries the first error raised on   *)
(* it (the `?` of the callers); every operation on a failed reader is a    *)
(* no-op, so the final err is the error the Rust function returns.         *)
(***************************************************************************)
BitReaderNew(data) == [data |-> data, byte_pos |-> 0, bit_pos |-> 0, err |-> "Ok"]

Fail(r, e) == IF r.err = "Ok" THEN [r EXCEPT !.err = e] ELSE r

Res(r, v) == [r |-> r, v |-> v]

\* bit_pos is a u8.  For bit_pos <= 7 no operation overflows.  For bit_pos > 7 the
\* subtraction 7 - bit_pos overflows: this operator computes what a build without overflow
\* checks does (the difference wraps, the shift amount is taken modulo 8, bit_pos += 1 wraps
\* at 256); the panic of a build with overflow checks is the other outcome, see BitPosOverflows
read_bit(r) ==
    IF r.err # "Ok" THEN Res(r, 0)
    ELSE IF r.byte_pos >= Len(r.data) THEN Res(Fail(r, "UnexpectedEof"), 0)
    ELSE Res(IF (r.bit_pos + 1) % 256 = 8
                THEN [r EXCEPT !.bit_pos = 0, !.byte_pos = @ + 1]
                ELSE [r EXCEPT !.bit_pos = (@ + 1) % 256],
             Bit(r.data[r.byte_pos + 1], r.bit_pos % 8))

\* read_bit on this reader evaluates 7 - bit_pos below zero
BitPosOverflows(r) == r.byte_pos < Len(r.data) /\ r.bit_pos > 7

RECURSIVE read_bits_loop(_, _, _)
read_bits_loop(r, n, value) ==
    LET step(b) == IF b.r.err # "Ok" THEN Res(b.r, 0)
                   ELSE read_bits_loop(b.r, n - 1, value * 2 + b.v)
    IN  IF n = 0 THEN Res(r, value) ELSE step(read_bit(r))

read_bits(r, n) ==
    IF r.err # "Ok" THEN Res(r, 0)
    ELSE IF n > 32 THEN Res(Fail(r, "BitstreamError"), 0)
    ELSE read_bits_loop(r, n, 0)

\* peek_bits puts the saved cursor back after read_bits returned a value; the `?` on
\* read_bits returns its error before the two assignments
peek_bits(r, n) ==
    LET restored(b) ==
            IF b.r.err # "Ok" THEN Res(b.r, 0)
            ELSE Res([b.r EXCEPT !.byte_pos = r.byte_pos, !.bit_pos = r.bit_pos], b.v)
    IN  restored(read_bits(r, n))

read_flag(r) ==
    LET flag(b) == Res(b.r, b.v = 1)
    IN  flag(read_bit(r))

read_u8(r) ==
    LET byte(b) == Res(b.r, b.v % 256)
    IN  byte(read_bits(r, 8))

more_rbsp_data(r) ==
    IF r.byte_pos >= Len(r.data) THEN FALSE
    ELSE IF r.byte_pos = Len(r.data) - 1
         THEN ((r.data[r.byte_pos + 1] * (2 ^ r.bit_pos)) % 256) # 128
         ELSE TRUE

seek(r, byte_pos, bit_pos) ==
    IF byte_pos >= Len(r.data) \/ (byte_pos = Len(r.data) - 1 /\ bit_pos > 7)
    THEN Fail(r, "BitstreamError")
    ELSE [r EXCEPT !.byte_pos = byte_pos, !.bit_pos = bit_pos]

RECURSIVE skip_bits(_, _)
skip_bits(r, n) ==
    LET step(b) == IF b.r.err # "Ok" THEN b.r ELSE skip_bits(b.r, n - 1)
    IN  IF n = 0 THEN r ELSE step(read_bit(r))

byte_aligned(r) == r.bit_pos = 0

align_to_byte(r) ==
    IF r.bit_pos # 0 THEN [r EXCEPT !.bit_pos = 0, !.byte_pos = @ + 1] ELSE r

RECURSIVE alignment_zero_bits(_)
alignment_zero_bits(r) ==
    LET step(b) == IF b.r.err # "Ok" THEN b.r
                   ELSE IF b.v THEN Fail(b.r, "BitstreamError")
                   ELSE alignment_zero_bits(b.r)
    IN  IF byte_aligned(r) THEN r ELSE step(read_flag(r))

rbsp_trailing_bits(r) ==
    LET stop(b) == IF b.r.err # "Ok" THEN b.r
                   ELSE IF ~b.v THEN Fail(b.r, "BitstreamError")
                   ELSE alignment_zero_bits(b.r)
    IN  stop(read_flag(r))

(***************************************************************************)
(* eg.rs : Exp-Golomb                                                      *)
(***************************************************************************)
RECURSIVE ue_leading_zeros(_, _)
\* the `while !reader.read_bit()?` loop of read_ue
ue_leading_zeros(r, lz) ==
    LET step(b) == IF b.r.err # "Ok" THEN Res(b.r, 0)
                   ELSE IF b.v = 1 THEN Res(b.r, lz)
                   ELSE IF lz + 1 > 31 THEN Res(Fail(b.r, "BitstreamError"), 0)
                   ELSE ue_leading_zeros(b.r, lz + 1)
    IN  step(read_bit(r))

read_ue(r) ==
    LET value(leading_zeros, c) ==
            IF c.r.err # "Ok" THEN Res(c.r, 0)
            ELSE Res(c.r, (2 ^ leading_zeros) - 1 + c.v)
        code(z) ==
            IF z.r.err # "Ok" THEN Res(z.r, 0)
            ELSE IF z.v = 0 THEN Res(z.r, 0)
            ELSE value(z.v, read_bits(z.r, z.v))
    IN  IF r.err # "Ok" THEN Res(r, 0) ELSE code(ue_leading_zeros(r, 0))

read_se(r) ==
    LET signed(k) ==
            IF k.r.err # "Ok" THEN Res(k.r, 0)
            ELSE IF k.v = 0 THEN Res(k.r, 0)
            ELSE IF k.v % 2 = 1 THEN Res(k.r, (k.v + 1) \div 2)
            ELSE Res(k.r, 0 - (k.v \div 2))
    IN  signed(read_ue(r))

RECURSIVE BitLength(_)
\* 32 - x.leading_zeros() of a u32
BitLength(x) == IF x = 0 THEN 0 ELSE 1 + BitLength(x \div 2)

\* the bits write_ue pushes for code_num: num_bits - 1 times false, then the num_bits
\* bits of code_num from the most significant one
ExpGolombBits(code_num) ==
    LET code(num_bits) ==
            [i \in 1..(num_bits - 1) |-> FALSE]
                \o [i \in 1..num_bits |-> (code_num \div (2 ^ (num_bits - i))) % 2 # 0]
    IN  code(BitLength(code_num))

\* a writer that forgets the + 1 of code_num
write_ue_no_offset(value) == IF value = 0 THEN <<TRUE>> ELSE ExpGolombBits(value)

write_ue(value) == IF value = 0 THEN <<TRUE>> ELSE ExpGolombBits(value + 1)

write_se(value) ==
    write_ue(IF value = 0 THEN 0 ELSE IF value > 0 THEN value * 2 - 1 ELSE (0 - value) * 2)

(***************************************************************************)
(* A decoder in progress is a context [r, f]: the reader and the fields    *)
(* decoded so far.  The statements of a parse function are a list of       *)
(* descriptors in program order; `let x = read(&mut reader)?` is           *)
(* <<kind of read, x>>, and a range check is <<"max" or "range", x, ..>>.  *)
(***************************************************************************)
Put(c, name, x) == [r |-> x.r, f |-> [c.f EXCEPT ![name] = x.v]]

\* `.. as u8`
AsU8(x) == Res(x.r, x.v % 256)

\* `if x > max { return Err(e) }` and `if x < min || x > max { return Err(e) }`
RejectAbove(c, name, max, e) ==
    IF c.f[name] > max THEN [c EXCEPT !.r = Fail(@, e)] ELSE c
RejectOutside(c, name, min, max, e) ==
    IF c.f[name] < min \/ c.f[name] > max THEN [c EXCEPT !.r = Fail(@, e)] ELSE c

\* one statement
Field(c, d) ==
    CASE d[1] = "flag"     -> Put(c, d[2], read_flag(c.r))
      [] d[1] = "u8"       -> Put(c, d[2], read_u8(c.r))
      [] d[1] = "bits"     -> Put(c, d[2], read_bits(c.r, d[3]))
      [] d[1] = "ue"       -> Put(c, d[2], read_ue(c.r))
      [] d[1] = "ue as u8" -> Put(c, d[2], AsU8(read_ue(c.r)))
      [] d[1] = "se"       -> Put(c, d[2], read_se(c.r))
      [] d[1] = "skip"     -> [c EXCEPT !.r = read_bits(@, d[2]).r]
      [] d[1] = "max"      -> RejectAbove(c, d[2], d[3], d[4])
      [] d[1] = "range"    -> RejectOutside(c, d[2], d[3], d[4], d[5])

\* the two halves of a list of statements
FirstHalf(list) == SubSeq(list, 1, Len(list) \div 2)
SecondHalf(list) == SubSeq(list, Len(list) \div 2 + 1, Len(list))

\* statements in sequence, the first half of the list and then the second;
\* the first `?` that fails ends the function
RECURSIVE Fields(_, _)
Fields(c, list) ==
    IF list = <<>> \/ c.r.err # "Ok" THEN c
    ELSE IF Len(list) = 1 THEN Field(c, list[1])
    ELSE Fields(Fields(c, FirstHalf(list)), SecondHalf(list))

(***************************************************************************)
(* nal.rs : NAL header and EBSP -> RBSP                                    *)
(***************************************************************************)
NalUnitTypeFrom(value) ==
    CASE value = 0 -> "Unspecified"
      [] value = 1 -> "NonIdrSlice"
      [] value = 2 -> "DataPartitionA"
      [] value = 3 -> "DataPartitionB"
      [] value = 4 -> "DataPartitionC"
      [] value = 5 -> "IdrSlice"
      [] value = 6 -> "Sei"
      [] value = 7 -> "Sps"
      [] value = 8 -> "Pps"
      [] value = 9 -> "Aud"
      [] value = 10 -> "EndOfSeq"
      [] value = 11 -> "EndOfStream"
      [] value = 12 -> "Filler"
      [] value = 13 -> "SpsExt"
      [] value = 14 -> "Prefix"
      [] value = 15 -> "SubsetSps"
      [] value = 16 -> "DepthParameterSet"
      [] value >= 17 /\ value <= 23 -> "Reserved"
      [] value >= 24 /\ value <= 31 -> "UnspecifiedExt"
      [] OTHER -> "Unspecified"

\* Nal::parse : [err, nal]; the raw 5-bit code is kept for Reserved(v) / UnspecifiedExt(v)
NalParse(start_code_len, data) ==
    IF data = <<>> THEN [err |-> "InvalidNalHeader"]
    ELSE IF (data[1] \div 128) % 2 # 0 THEN [err |-> "InvalidNalHeader"]
    ELSE [err |-> "Ok",
          nal |-> [start_code_len |-> start_code_len,
                   ref_idc  |-> (data[1] \div 32) % 4,
                   nal_type |-> NalUnitTypeFrom(data[1] % 32),
                   raw_type |-> data[1] % 32,
                   ebsp     |-> Tail(data)]]

is_slice(nal) ==
    nal.nal_type \in {"NonIdrSlice", "IdrSlice", "DataPartitionA", "DataPartitionB", "DataPartitionC"}

is_vcl(nal) ==
    nal.nal_type \in {"NonIdrSlice", "DataPartitionA", "DataPartitionB", "DataPartitionC", "IdrSlice"}

RECURSIVE ebsp_to_rbsp_from(_, _)
ebsp_to_rbsp_from(ebsp, i) ==
    IF i >= Len(ebsp) THEN <<>>
    ELSE IF i + 2 < Len(ebsp) /\ ebsp[i + 1] = 0 /\ ebsp[i + 2] = 0 /\ ebsp[i + 3] = 3
         THEN <<0, 0>> \o ebsp_to_rbsp_from(ebsp, i + 3)
         ELSE <<ebsp[i + 1]>> \o ebsp_to_rbsp_from(ebsp, i + 1)

ebsp_to_rbsp(ebsp) == ebsp_to_rbsp_from(ebsp, 0)

RECURSIVE rbsp_to_ebsp_from(_, _, _, _)
\* the `for &byte in rbsp` loop of rbsp_to_ebsp from index i with zero_count zeros seen;
\* a byte <= escaped after two zeros gets an emulation prevention byte before it
rbsp_to_ebsp_from(rbsp, i, zero_count, escaped) ==
    LET pushed(byte, zeros) ==
            <<byte>> \o rbsp_to_ebsp_from(rbsp, i + 1, IF byte = 0 THEN zeros + 1 ELSE 0, escaped)
        body(byte) ==
            IF zero_count = 2 /\ byte <= escaped
            THEN <<3>> \o pushed(byte, 0)
            ELSE pushed(byte, zero_count)
    IN  IF i >= Len(rbsp) THEN <<>> ELSE body(rbsp[i + 1])

\* an encoder that does not escape the byte 0x03
rbsp_to_ebsp_below3(rbsp) == rbsp_to_ebsp_from(rbsp, 0, 0, 2)

rbsp_to_ebsp(rbsp) == rbsp_to_ebsp_from(rbsp, 0, 0, 3)

to_rbsp(nal) == ebsp_to_rbsp(nal.ebsp)

(***************************************************************************)
(* sps.rs : Sps::parse                                                     *)
(***************************************************************************)
\* Rust's % on i32 (sign of the dividend)
RustRem(a, b) == IF a >= 0 THEN a % b ELSE 0 - ((0 - a) % b)

RECURSIVE skip_scaling_list_loop(_, _, _, _)
skip_scaling_list_loop(r, n, last_scale, next_scale) ==
    LET step(d, ns) ==
            skip_scaling_list_loop(d.r, n - 1, IF ns = 0 THEN last_scale ELSE ns, ns)
        delta(d) ==
            step(d, IF next_scale # 0 THEN RustRem(last_scale + d.v + 256, 256) ELSE next_scale)
    IN  IF n = 0 \/ r.err # "Ok" THEN r
        ELSE IF next_scale # 0 THEN delta(read_se(r)) ELSE delta(Res(r, 0))

skip_scaling_list(r, size) == skip_scaling_list_loop(r, size, 8, 8)

RECURSIVE sps_scaling_lists(_, _)
sps_scaling_lists(r, n) ==
    LET list(f) == sps_scaling_lists(IF f.v THEN skip_scaling_list(f.r, 16) ELSE f.r, n - 1)
    IN  IF n = 0 \/ r.err # "Ok" THEN r ELSE list(read_flag(r))

RECURSIVE read_se_times(_, _)
read_se_times(r, n) ==
    IF n = 0 \/ r.err # "Ok" THEN r ELSE read_se_times(read_se(r).r, n - 1)

HighProfiles == {100, 110, 122, 244, 44, 83, 86, 118, 128, 138, 139, 134, 135}

\* the fields of Sps with the values of the `let mut` defaults
SpsInit ==
    [profile_idc |-> 0, constraint_set0_flag |-> FALSE, constraint_set1_flag |-> FALSE,
     constraint_set2_flag |-> FALSE, constraint_set3_flag |-> FALSE,
     constraint_set4_flag |-> FALSE, constraint_set5_flag |-> FALSE,
     level_idc |-> 0, seq_parameter_set_id |-> 0,
     chroma_format_idc |-> 1, separate_colour_plane_flag |-> FALSE,
     bit_depth_luma_minus8 |-> 0, bit_depth_chroma_minus8 |-> 0,
     qpprime_y_zero_transform_bypass_flag |-> FALSE,
     seq_scaling_matrix_present_flag |-> FALSE,
     log2_max_frame_num_minus4 |-> 0, pic_order_cnt_type |-> 0,
     log2_max_pic_order_cnt_lsb_minus4 |-> 0, delta_pic_order_always_zero_flag |-> FALSE,
     offset_for_non_ref_pic |-> 0, offset_for_top_to_bottom_field |-> 0,
     num_ref_frames_in_pic_order_cnt_cycle |-> 0,
     max_num_ref_frames |-> 0, gaps_in_frame_num_value_allowed_flag |-> FALSE,
     pic_width_in_mbs_minus1 |-> 0, pic_height_in_map_units_minus1 |-> 0,
     frame_mbs_only_flag |-> FALSE, mb_adaptive_frame_field_flag |-> FALSE,
     direct_8x8_inference_flag |-> FALSE,
     frame_cropping_flag |-> FALSE, frame_crop_left_offset |-> 0,
     frame_crop_right_offset |-> 0, frame_crop_top_offset |-> 0,
     frame_crop_bottom_offset |-> 0, vui_parameters_present_flag |-> FALSE]

\* the block of the high profiles: chroma_format_idc .. seq_scaling_list
SpsChromaBlock(c) ==
    LET scaling(d) ==
            IF d.f.seq_scaling_matrix_present_flag
            THEN [d EXCEPT !.r = sps_scaling_lists(@, IF d.f.chroma_format_idc # 3 THEN 8 ELSE 12)]
            ELSE d
        depths(d) ==
            scaling(Fields(d, << <<"ue as u8", "bit_depth_luma_minus8">>,
                                 <<"ue as u8", "bit_depth_chroma_minus8">>,
                                 <<"flag", "qpprime_y_zero_transform_bypass_flag">>,
                                 <<"flag", "seq_scaling_matrix_present_flag">> >>))
        separate(d) ==
            depths(IF d.f.chroma_format_idc = 3
                   THEN Field(d, <<"flag", "separate_colour_plane_flag">>) ELSE d)
    IN  IF c.f.profile_idc \in HighProfiles
        THEN separate(Fields(c, << <<"ue as u8", "chroma_format_idc">>,
                                   <<"max", "chroma_format_idc", 3, "MalformedSps">> >>))
        ELSE c

\* the `match pic_order_cnt_type`
SpsPocBlock(c) ==
    LET cycle(d) ==
            [d EXCEPT !.r = read_se_times(@, d.f.num_ref_frames_in_pic_order_cnt_cycle)]
    IN  CASE c.f.pic_order_cnt_type = 0 ->
               Fields(c, << <<"ue as u8", "log2_max_pic_order_cnt_lsb_minus4">>,
                            <<"max", "log2_max_pic_order_cnt_lsb_minus4", 12, "MalformedSps">> >>)
          [] c.f.pic_order_cnt_type = 1 ->
               cycle(Fields(c, << <<"flag", "delta_pic_order_always_zero_flag">>,
                                  <<"se", "offset_for_non_ref_pic">>,
                                  <<"se", "offset_for_top_to_bottom_field">>,
                                  <<"ue as u8", "num_ref_frames_in_pic_order_cnt_cycle">> >>))
          [] c.f.pic_order_cnt_type = 2 -> c
          [] OTHER -> [c EXCEPT !.r = Fail(@, "MalformedSps")]

\* frame_mbs_only_flag .. frame_crop_bottom_offset
SpsFrameBlock(c) ==
    LET crop(d) ==
            IF d.f.frame_cropping_flag
            THEN Fields(d, << <<"ue", "frame_crop_left_offset">>,
                              <<"ue", "frame_crop_right_offset">>,
                              <<"ue", "frame_crop_top_offset">>,
                              <<"ue", "frame_crop_bottom_offset">> >>)
            ELSE d
        flags(d) ==
            crop(Fields(d, << <<"flag", "direct_8x8_inference_flag">>,
                              <<"flag", "frame_cropping_flag">> >>))
        adaptive(d) ==
            flags(IF ~d.f.frame_mbs_only_flag
                  THEN Field(d, <<"flag", "mb_adaptive_frame_field_flag">>) ELSE d)
    IN  adaptive(Field(c, <<"flag", "frame_mbs_only_flag">>))

\* the statements of Sps::parse
SpsSyntax ==
    << <<"u8", "profile_idc">>,
       <<"flag", "constraint_set0_flag">>, <<"flag", "constraint_set1_flag">>,
       <<"flag", "constraint_set2_flag">>, <<"flag", "constraint_set3_flag">>,
       <<"flag", "constraint_set4_flag">>, <<"flag", "constraint_set5_flag">>,
       <<"skip", 2>>,
       <<"u8", "level_idc">>,
       <<"ue", "seq_parameter_set_id">>,
       <<"max", "seq_parameter_set_id", 31, "MalformedSps">>,
       <<"block", "chroma">>,
       <<"ue as u8", "log2_max_frame_num_minus4">>,
       <<"max", "log2_max_frame_num_minus4", 12, "MalformedSps">>,
       <<"ue as u8", "pic_order_cnt_type">>,
       <<"block", "pic_order_cnt">>,
       <<"ue", "max_num_ref_frames">>,
       <<"flag", "gaps_in_frame_num_value_allowed_flag">>,
       <<"ue", "pic_width_in_mbs_minus1">>,
       <<"ue", "pic_height_in_map_units_minus1">>,
       <<"block", "frame">>,
       <<"flag", "vui_parameters_present_flag">> >>

SpsStep(c, d) ==
    IF d[1] # "block" THEN Field(c, d)
    ELSE CASE d[2] = "chroma" -> SpsChromaBlock(c)
           [] d[2] = "pic_order_cnt" -> SpsPocBlock(c)
           [] d[2] = "frame" -> SpsFrameBlock(c)

RECURSIVE SpsSteps(_, _)
SpsSteps(c, list) ==
    IF list = <<>> \/ c.r.err # "Ok" THEN c
    ELSE IF Len(list) = 1 THEN SpsStep(c, list[1])
    ELSE SpsSteps(SpsSteps(c, FirstHalf(list)), SecondHalf(list))

\* Sps::parse : [err, sps]
SpsParse(rbsp) ==
    LET done(c) == IF c.r.err # "Ok" THEN [err |-> c.r.err] ELSE [err |-> "Ok", sps |-> c.f]
    IN  done(SpsSteps([r |-> BitReaderNew(rbsp), f |-> SpsInit], SpsSyntax))

\* u32 arithmetic of the derived dimensions: [ok, v], ok while no step has left the range
\* of u32 (the step panics when overflow checks are compiled in and wraps otherwise)
U32(v) == [ok |-> TRUE, v |-> v]

U32Lost == [ok |-> FALSE, v |-> 0]

\* u32::MAX / k for k >= 3
U32Quot(k) == 2 * (2147483647 \div k) + ((2 * (2147483647 % k) + 1) \div k)

U32Add(a, b) == IF a.ok /\ b.ok THEN U32(a.v + b.v) ELSE U32Lost

U32Mul(a, k) ==
    IF ~a.ok \/ (k >= 3 /\ a.v > U32Quot(k)) THEN U32Lost ELSE U32(a.v * k)

U32Sub(a, b) == IF a.ok /\ b.ok /\ a.v >= b.v THEN U32(a.v - b.v) ELSE U32Lost

\* (sub_width_c, sub_height_c) of the `match chroma_format_idc`
SubWidthC(chroma_format_idc) ==
    CASE chroma_format_idc = 1 -> 2 [] chroma_format_idc = 2 -> 2
      [] chroma_format_idc = 3 -> 1 [] OTHER -> 0

SubHeightC(chroma_format_idc) ==
    CASE chroma_format_idc = 1 -> 2 [] chroma_format_idc = 2 -> 1
      [] chroma_format_idc = 3 -> 1 [] OTHER -> 0

\* `let width = ..` of Sps::parse, both of them
SpsWidth(f) ==
    LET width == U32Mul(U32Add(U32(f.pic_width_in_mbs_minus1), U32(1)), 16)
        crop == U32Add(U32(f.frame_crop_left_offset), U32(f.frame_crop_right_offset))
    IN  IF f.frame_cropping_flag /\ SubWidthC(f.chroma_format_idc) > 0
        THEN U32Sub(width, U32Mul(crop, SubWidthC(f.chroma_format_idc)))
        ELSE width

\* `let height = ..` of Sps::parse, both of them
SpsHeight(f) ==
    LET mult == IF f.frame_mbs_only_flag THEN 1 ELSE 2
        height == U32Mul(U32Mul(U32Add(U32(f.pic_height_in_map_units_minus1), U32(1)), 16), mult)
        crop == U32Add(U32(f.frame_crop_top_offset), U32(f.frame_crop_bottom_offset))
    IN  IF f.frame_cropping_flag /\ SubHeightC(f.chroma_format_idc) > 0
        THEN U32Sub(height, U32Mul(crop, SubHeightC(f.chroma_format_idc) * mult))
        ELSE height

(***************************************************************************)
(* pps.rs : Pps::parse                                                     *)
(***************************************************************************)
RECURSIVE ilog2(_)
ilog2(n) == IF n <= 1 THEN 0 ELSE 1 + ilog2(n \div 2)

RECURSIVE read_ue_times(_, _)
read_ue_times(r, n) ==
    IF n = 0 \/ r.err # "Ok" THEN r ELSE read_ue_times(read_ue(r).r, n - 1)

RECURSIVE read_bits_times(_, _, _)
read_bits_times(r, num_bits, n) ==
    IF n = 0 \/ r.err # "Ok" THEN r
    ELSE read_bits_times(read_bits(r, num_bits).r, num_bits, n - 1)

\* the fields of Pps with the values of the `let mut` defaults
PpsInit ==
    [pic_parameter_set_id |-> 0, seq_parameter_set_id |-> 0,
     entropy_coding_mode_flag |-> FALSE,
     bottom_field_pic_order_in_frame_present_flag |-> FALSE,
     num_slice_groups_minus1 |-> 0, slice_group_map_type |-> 0,
     num_ref_idx_l0_default_active_minus1 |-> 0, num_ref_idx_l1_default_active_minus1 |-> 0,
     weighted_pred_flag |-> FALSE, weighted_bipred_idc |-> 0,
     pic_init_qp_minus26 |-> 0, pic_init_qs_minus26 |-> 0, chroma_qp_index_offset |-> 0,
     deblocking_filter_control_present_flag |-> FALSE, constrained_intra_pred_flag |-> FALSE,
     redundant_pic_cnt_present_flag |-> FALSE,
     transform_8x8_mode_flag |-> FALSE, pic_scaling_matrix_present_flag |-> FALSE,
     second_chroma_qp_index_offset |-> 0]

\* the `if num_slice_groups_minus1 > 0` block
PpsSliceGroups(c) ==
    LET map_units(n, sz) == read_bits_times(sz.r, ilog2(n + 1), sz.v + 1)
        groups(n, t, r) ==
            CASE t = 0 -> read_ue_times(r, n + 1)
              [] t = 2 -> read_ue_times(r, 2 * n)
              [] t \in {3, 4, 5} -> read_ue(read_flag(r).r).r
              [] t = 6 -> map_units(n, read_ue(r))
              [] OTHER -> r
        skip(d) ==
            [d EXCEPT !.r = groups(d.f.num_slice_groups_minus1, d.f.slice_group_map_type, @)]
    IN  IF c.f.num_slice_groups_minus1 > 0
        THEN skip(Field(c, <<"ue", "slice_group_map_type">>))
        ELSE c

RECURSIVE pps_scaling_lists(_, _, _)
pps_scaling_lists(r, i, num_lists) ==
    LET list(f) ==
            pps_scaling_lists(IF f.v THEN skip_scaling_list(f.r, IF i < 6 THEN 16 ELSE 64)
                                     ELSE f.r,
                              i + 1, num_lists)
    IN  IF i >= num_lists \/ r.err # "Ok" THEN r ELSE list(read_flag(r))

\* second_chroma_qp_index_offset's default and the `if reader.more_rbsp_data()` block
PpsTrailer(c) ==
    LET second(d) ==
            Fields(d, << <<"se", "second_chroma_qp_index_offset">>,
                         <<"range", "second_chroma_qp_index_offset", -12, 12, "MalformedPps">> >>)
        scaling(d) ==
            second(IF d.f.pic_scaling_matrix_present_flag
                   THEN [d EXCEPT !.r = pps_scaling_lists(@, 0,
                                            6 + (IF d.f.transform_8x8_mode_flag THEN 2 ELSE 0))]
                   ELSE d)
        more(d) ==
            IF d.r.err = "Ok" /\ more_rbsp_data(d.r)
            THEN scaling(Fields(d, << <<"flag", "transform_8x8_mode_flag">>,
                                      <<"flag", "pic_scaling_matrix_present_flag">> >>))
            ELSE d
    IN  more([c EXCEPT !.f.second_chroma_qp_index_offset = c.f.chroma_qp_index_offset])

\* the statements of Pps::parse
PpsSyntax ==
    << <<"ue", "pic_parameter_set_id">>,
       <<"max", "pic_parameter_set_id", 255, "MalformedPps">>,
       <<"ue", "seq_parameter_set_id">>,
       <<"max", "seq_parameter_set_id", 31, "MalformedPps">>,
       <<"flag", "entropy_coding_mode_flag">>,
       <<"flag", "bottom_field_pic_order_in_frame_present_flag">>,
       <<"ue", "num_slice_groups_minus1">>,
       <<"block", "slice_groups">>,
       <<"ue", "num_ref_idx_l0_default_active_minus1">>,
       <<"max", "num_ref_idx_l0_default_active_minus1", 31, "MalformedPps">>,
       <<"ue", "num_ref_idx_l1_default_active_minus1">>,
       <<"max", "num_ref_idx_l1_default_active_minus1", 31, "MalformedPps">>,
       <<"flag", "weighted_pred_flag">>,
       <<"bits", "weighted_bipred_idc", 2>>,
       <<"se", "pic_init_qp_minus26">>,
       <<"range", "pic_init_qp_minus26", -26, 25, "MalformedPps">>,
       <<"se", "pic_init_qs_minus26">>,
       <<"range", "pic_init_qs_minus26", -26, 25, "MalformedPps">>,
       <<"se", "chroma_qp_index_offset">>,
       <<"range", "chroma_qp_index_offset", -12, 12, "MalformedPps">>,
       <<"flag", "deblocking_filter_control_present_flag">>,
       <<"flag", "constrained_intra_pred_flag">>,
       <<"flag", "redundant_pic_cnt_present_flag">>,
       <<"block", "trailer">> >>

PpsStep(c, d) ==
    IF d[1] # "block" THEN Field(c, d)
    ELSE CASE d[2] = "slice_groups" -> PpsSliceGroups(c)
           [] d[2] = "trailer" -> PpsTrailer(c)

RECURSIVE PpsSteps(_, _)
PpsSteps(c, list) ==
    IF list = <<>> \/ c.r.err # "Ok" THEN c
    ELSE IF Len(list) = 1 THEN PpsStep(c, list[1])
    ELSE PpsSteps(PpsSteps(c, FirstHalf(list)), SecondHalf(list))

\* Pps::parse : [err, pps]
PpsParse(rbsp) ==
    LET done(c) == IF c.r.err # "Ok" THEN [err |-> c.r.err] ELSE [err |-> "Ok", pps |-> c.f]
    IN  done(PpsSteps([r |-> BitReaderNew(rbsp), f |-> PpsInit], PpsSyntax))

(***************************************************************************)
(* slice.rs : SliceHeader::parse, PictureId ; parser.rs : minimal pass     *)
(***************************************************************************)
\* parse_slice_header_minimal : [err, pps_id]
parse_slice_header_minimal(rbsp) ==
    LET done(id) ==
            IF id.r.err # "Ok" THEN [err |-> id.r.err]
            ELSE IF id.v > 255 THEN [err |-> "SliceParseError"]
            ELSE [err |-> "Ok", pps_id |-> id.v % 256]
    IN  done(read_ue(read_ue(read_ue(BitReaderNew(rbsp)).r).r))

SliceTypeFrom(value) ==
    CASE value % 5 = 0 -> "P" [] value % 5 = 1 -> "B" [] value % 5 = 2 -> "I"
      [] value % 5 = 3 -> "Sp" [] OTHER -> "Si"

\* the fields of SliceHeader with the values of the `let mut` defaults
SliceHeaderInit(pps) ==
    [first_mb_in_slice |-> 0, slice_type |-> "P", pic_parameter_set_id |-> 0,
     colour_plane_id |-> 0, frame_num |-> 0, field_pic_flag |-> FALSE,
     bottom_field_flag |-> FALSE, idr_pic_id |-> 0, pic_order_cnt_lsb |-> 0,
     delta_pic_order_cnt_bottom |-> 0, delta_pic_order_cnt |-> <<0, 0>>,
     redundant_pic_cnt |-> 0, direct_spatial_mv_pred_flag |-> FALSE,
     num_ref_idx_active_override_flag |-> FALSE,
     num_ref_idx_l0_active_minus1 |-> pps.num_ref_idx_l0_default_active_minus1,
     num_ref_idx_l1_active_minus1 |-> pps.num_ref_idx_l1_default_active_minus1]

\* slice_type_value and SliceType::from_value
SliceTypeField(c) ==
    LET typed(x) == Put(c, "slice_type", Res(x.r, SliceTypeFrom(x.v)))
    IN  typed(read_ue(c.r))

\* field_pic_flag and bottom_field_flag
SliceFieldBlock(c, sps) ==
    LET bottom(d) ==
            IF d.f.field_pic_flag THEN Field(d, <<"flag", "bottom_field_flag">>) ELSE d
    IN  IF ~sps.frame_mbs_only_flag THEN bottom(Field(c, <<"flag", "field_pic_flag">>)) ELSE c

\* the picture-order-count fields of the slice header
SlicePoc(c, sps, pps) ==
    LET bottom == pps.bottom_field_pic_order_in_frame_present_flag /\ ~c.f.field_pic_flag
        delta(d, i, x) == [r |-> x.r, f |-> [d.f EXCEPT !.delta_pic_order_cnt[i] = x.v]]
        delta1(d) == IF bottom THEN delta(d, 2, read_se(d.r)) ELSE d
        delta0(d) == delta1(delta(d, 1, read_se(d.r)))
    IN  IF sps.pic_order_cnt_type = 0
        THEN Fields(c, << <<"bits", "pic_order_cnt_lsb",
                            sps.log2_max_pic_order_cnt_lsb_minus4 + 4>> >>
                       \o (IF bottom THEN << <<"se", "delta_pic_order_cnt_bottom">> >>
                           ELSE <<>>))
        ELSE IF sps.pic_order_cnt_type = 1 /\ ~sps.delta_pic_order_always_zero_flag
        THEN delta0(c)
        ELSE c

\* the reference-index fields of the slice header
SliceRefIdx(c) ==
    LET counts(d) ==
            IF d.f.num_ref_idx_active_override_flag
            THEN Fields(d, << <<"ue", "num_ref_idx_l0_active_minus1">> >>
                           \o (IF d.f.slice_type = "B"
                               THEN << <<"ue", "num_ref_idx_l1_active_minus1">> >>
                               ELSE <<>>))
            ELSE d
    IN  IF c.f.slice_type \in {"P", "Sp", "B"}
        THEN counts(Field(c, <<"flag", "num_ref_idx_active_override_flag">>))
        ELSE c

\* the statements of SliceHeader::parse
SliceSyntax(nal_type, sps, pps) ==
    << <<"ue", "first_mb_in_slice">>,
       <<"block", "slice_type">>,
       <<"ue", "pic_parameter_set_id">>,
       <<"max", "pic_parameter_set_id", 255, "SliceParseError">> >>
    \o (IF sps.separate_colour_plane_flag THEN << <<"bits", "colour_plane_id", 2>> >>
        ELSE <<>>)
    \o << <<"bits", "frame_num", sps.log2_max_frame_num_minus4 + 4>>,
          <<"block", "field">> >>
    \o (IF nal_type = "IdrSlice" THEN << <<"ue", "idr_pic_id">> >> ELSE <<>>)
    \o << <<"block", "pic_order_cnt">> >>
    \o (IF pps.redundant_pic_cnt_present_flag THEN << <<"ue", "redundant_pic_cnt">> >>
        ELSE <<>>)
    \o << <<"block", "direct">>,
          <<"block", "ref_idx">> >>

SliceStep(c, d, sps, pps) ==
    IF d[1] # "block" THEN Field(c, d)
    ELSE CASE d[2] = "slice_type" -> SliceTypeField(c)
           [] d[2] = "field" -> SliceFieldBlock(c, sps)
           [] d[2] = "pic_order_cnt" -> SlicePoc(c, sps, pps)
           [] d[2] = "direct" ->
                IF c.f.slice_type = "B"
                THEN Field(c, <<"flag", "direct_spatial_mv_pred_flag">>) ELSE c
           [] d[2] = "ref_idx" -> SliceRefIdx(c)

RECURSIVE SliceSteps(_, _, _, _)
SliceSteps(c, list, sps, pps) ==
    IF list = <<>> \/ c.r.err # "Ok" THEN c
    ELSE IF Len(list) = 1 THEN SliceStep(c, list[1], sps, pps)
    ELSE SliceSteps(SliceSteps(c, FirstHalf(list), sps, pps), SecondHalf(list), sps, pps)

\* SliceHeader::parse : [err, header]
SliceHeaderParse(rbsp, nal_type, sps, pps) ==
    LET done(c) == IF c.r.err # "Ok" THEN [err |-> c.r.err] ELSE [err |-> "Ok", header |-> c.f]
    IN  done(SliceSteps([r |-> BitReaderNew(rbsp), f |-> SliceHeaderInit(pps)],
                        SliceSyntax(nal_type, sps, pps), sps, pps))

\* Option<T> as a sequence: <<>> is None, <<x>> is Some(x)
None == <<>>
Some(x) == <<x>>

\* PictureId::from_slice_header
PictureIdFrom(header, nal_type, sps) ==
    [frame_num |-> header.frame_num,
     pic_parameter_set_id |-> header.pic_parameter_set_id,
     idr_pic_id |-> IF nal_type = "IdrSlice" THEN Some(header.idr_pic_id) ELSE None,
     pic_order_cnt_lsb |-> IF sps.pic_order_cnt_type = 0 THEN Some(header.pic_order_cnt_lsb) ELSE None,
     delta_pic_order_cnt |-> IF sps.pic_order_cnt_type = 1 THEN Some(header.delta_pic_order_cnt) ELSE None,
     field_pic_flag |-> header.field_pic_flag,
     bottom_field_flag |-> header.bottom_field_flag]


(***************************************************************************)
(* sei.rs : SeiMessage::parse, parse_recovery_point                        *)
(***************************************************************************)
RECURSIVE ff_run(_, _)
\* number of consecutive 0xFF bytes of rbsp from offset pos
ff_run(rbsp, pos) ==
    IF pos < Len(rbsp) /\ rbsp[pos + 1] = 255 THEN 1 + ff_run(rbsp, pos + 1) ELSE 0

\* one ff-coded number read at pos: [v, pos]
sei_number(rbsp, pos) ==
    LET last(n, p1) ==
            IF p1 < Len(rbsp) THEN [v |-> 255 * n + rbsp[p1 + 1], pos |-> p1 + 1]
            ELSE [v |-> 255 * n, pos |-> p1]
        run(n) == last(n, pos + n)
    IN  run(ff_run(rbsp, pos))

RECURSIVE recovery_frame_cnt_loop(_, _, _)
\* the 7-bit-per-byte loop: [cnt, pos]
recovery_frame_cnt_loop(data, pos, cnt) ==
    IF ~(pos < Len(data)) THEN [cnt |-> cnt, pos |-> pos]
    ELSE LET byte == data[pos + 1]
             c    == (cnt % (2 ^ 25)) * 128 + (byte % 128)
         IN  IF byte \div 128 = 0 THEN [cnt |-> c, pos |-> pos + 1]
             ELSE recovery_frame_cnt_loop(data, pos + 1, c)

\* parse_recovery_point
parse_recovery_point(data) ==
    LET flags(c) == IF c.pos < Len(data) THEN data[c.pos + 1] ELSE 0
        payload(cnt, fl) ==
            [kind |-> "RecoveryPoint",
             recovery_frame_cnt |-> cnt,
             exact_match_flag |-> (fl \div 128) % 2 = 1,
             broken_link_flag |-> (fl \div 64) % 2 = 1,
             changing_slice_group_idc |-> (fl \div 16) % 4]
        counted(c) == payload(c.cnt, flags(c))
    IN  IF data = <<>> THEN [kind |-> "Unknown", payload_type |-> 6, bytes |-> data]
        ELSE counted(recovery_frame_cnt_loop(data, 0, 0))

RECURSIVE SeiParseFrom(_, _)
SeiParseFrom(rbsp, pos) ==
    LET payload(payload_type, payload_data) ==
            CASE payload_type = 6 -> parse_recovery_point(payload_data)
              [] payload_type = 5 /\ Len(payload_data) >= 16 ->
                   [kind |-> "UserDataUnregistered", bytes |-> payload_data]
              [] OTHER -> [kind |-> "Unknown", payload_type |-> payload_type,
                           bytes |-> payload_data]
        message(pt, psz, payload_end) ==
            <<[payload_type |-> pt.v, payload_size |-> psz.v,
               payload |-> payload(pt.v, Slice(rbsp, psz.pos, payload_end))]>>
            \o SeiParseFrom(rbsp, payload_end)
        sized(pt, psz) ==
            message(pt, psz,
                    IF psz.pos + psz.v < Len(rbsp) THEN psz.pos + psz.v ELSE Len(rbsp))
        typed(pt) == sized(pt, sei_number(rbsp, pt.pos))
    IN  IF ~(pos < Len(rbsp) /\ rbsp[pos + 1] # 128) THEN <<>>
        ELSE typed(sei_number(rbsp, pos))

\* SeiMessage::parse (never fails: parse_recovery_point has no Err path)
SeiParse(rbsp) == SeiParseFrom(rbsp, 0)

(***************************************************************************)
(* au.rs : AccessUnit                                                      *)
(***************************************************************************)
KindIdr == [tag |-> "Idr", cnt |-> 0]
KindNonIdr == [tag |-> "NonIdr", cnt |-> 0]
KindRecoveryPoint(n) == [tag |-> "RecoveryPoint", cnt |-> n]

AccessUnitNew ==
    [nals |-> <<>>, is_keyframe |-> FALSE, kind |-> KindNonIdr,
     sps |-> None, pps |-> None, picture_id |-> None]

\* add_nal that puts the NAL in front of the list, where the source pushes it at the end
AuAddNalFront(au, nal) ==
    IF nal.nal_type = "IdrSlice"
    THEN [au EXCEPT !.kind = KindIdr, !.is_keyframe = TRUE, !.nals = <<nal>> \o @]
    ELSE [au EXCEPT !.nals = <<nal>> \o @]

\* AccessUnit::add_nal
AuAddNal(au, nal) ==
    IF nal.nal_type = "IdrSlice"
    THEN [au EXCEPT !.kind = KindIdr, !.is_keyframe = TRUE, !.nals = Append(@, nal)]
    ELSE [au EXCEPT !.nals = Append(@, nal)]

\* The Nal that next_access_unit gives the builder borrows its ebsp from self.buffer_data
\* (parser.rs:93-102): `at` names the allocation (gen) and the place of the bytes in it.
\* The Vec frees its allocation when it grows, and a read through a Nal built before is
\* then undefined.  What such a read shows is the environment's choice: the bytes are
\* still there, the storage reads as zeros, or the allocator has written over it (here
\* with bytes that spell a recovery-point message).
VARIABLE freed
FreedShows == {"kept", "zeros", "message"}

FreedRead(bytes) ==
    CASE freed = "kept"  -> bytes
      [] freed = "zeros" -> [i \in 1..Len(bytes) |-> 0]
      [] OTHER           -> [i \in 1..Len(bytes) |-> IF i <= 4 THEN <<6, 1, 0, 128>>[i] ELSE 0]

EbspLive(v, nal) == nal.at.gen = v.gen

EbspRead(v, nal) == SubSeq(v.mem, nal.at.start + 1, nal.at.start + nal.at.len)

\* reading nal.ebsp while the parser's buffer_data is v
Deref(v, nal) == IF EbspLive(v, nal) THEN EbspRead(v, nal) ELSE FreedRead(nal.ebsp)

RECURSIVE apply_recovery_messages(_, _)
apply_recovery_messages(au, msgs) ==
    LET message(m) ==
            IF m.kind = "RecoveryPoint"
            THEN IF m.recovery_frame_cnt = 0
                 THEN [au EXCEPT !.kind = KindRecoveryPoint(0), !.is_keyframe = TRUE]
                 ELSE [au EXCEPT !.kind = KindRecoveryPoint(m.recovery_frame_cnt)]
            ELSE au
    IN  IF msgs = <<>> THEN au
        ELSE apply_recovery_messages(message(Head(msgs).payload), Tail(msgs))

RECURSIVE check_recovery_point_from(_, _, _)
check_recovery_point_from(au, i, v) ==
    IF i > Len(au.nals) THEN au
    ELSE check_recovery_point_from(
             IF au.nals[i].nal_type = "Sei"
             THEN apply_recovery_messages(au, SeiParse(ebsp_to_rbsp(Deref(v, au.nals[i]))))
             ELSE au,
             i + 1, v)

\* AccessUnit::check_recovery_point, run while the parser's buffer_data is v
check_recovery_point(au, v) == check_recovery_point_from(au, 1, v)

(***************************************************************************)
(* au.rs : AccessUnitBuilder, a record [current_au, current_picture_id]    *)
(***************************************************************************)
AccessUnitBuilderNew == [current_au |-> None, current_picture_id |-> None]

\* is_au_boundary comparing frame_num where the source compares the whole PictureId
is_au_boundary_frame_num_only(b, nal, slice_header, sps) ==
    IF nal.nal_type = "Aud" THEN TRUE
    ELSE IF ~is_vcl(nal) THEN FALSE
    ELSE IF b.current_picture_id = None THEN TRUE
    ELSE IF slice_header # None /\ sps # None
         THEN PictureIdFrom(slice_header[1], nal.nal_type, sps[1]).frame_num
                  # b.current_picture_id[1].frame_num
         ELSE FALSE

\* is_au_boundary that never ends an access unit at a slice of an open picture
is_au_boundary_first_slice_only(b, nal, slice_header, sps) ==
    IF nal.nal_type = "Aud" THEN TRUE
    ELSE IF ~is_vcl(nal) THEN FALSE
    ELSE b.current_picture_id = None

\* AccessUnitBuilder::is_au_boundary
is_au_boundary(b, nal, slice_header, sps) ==
    IF nal.nal_type = "Aud" THEN TRUE
    ELSE IF ~is_vcl(nal) THEN FALSE
    ELSE IF b.current_picture_id = None THEN TRUE
    ELSE IF slice_header # None /\ sps # None
         THEN PictureIdFrom(slice_header[1], nal.nal_type, sps[1]) # b.current_picture_id[1]
         ELSE FALSE

\* AccessUnitBuilder::add_nal : [b, completed]
BuilderAddNal(b, nal, slice_header, sps, pps, v) ==
    LET \* `if let (Some(header), Some(sps_ref)) = (slice_header, &au.sps)`, then au.add_nal
        added(au, pid0, completed) ==
            IF slice_header # None /\ au.sps # None
            THEN LET identified(pid) ==
                         [b |-> [current_au |-> Some(AuAddNal([au EXCEPT !.picture_id = pid], nal)),
                                 current_picture_id |-> pid],
                          completed |-> completed]
                 IN  identified(Some(PictureIdFrom(slice_header[1], nal.nal_type, au.sps[1])))
            ELSE [b |-> [current_au |-> Some(AuAddNal(au, nal)), current_picture_id |-> pid0],
                  completed |-> completed]
        \* au.set_sps / au.set_pps on the current access unit
        opened(au, pid0, completed) ==
            added([au EXCEPT !.sps = IF sps # None THEN sps ELSE @,
                             !.pps = IF pps # None THEN pps ELSE @],
                  pid0, completed)
        decided(is_boundary) ==
            IF is_boundary /\ b.current_au # None
            THEN opened(AccessUnitNew, None, Some(check_recovery_point(b.current_au[1], v)))
            ELSE IF b.current_au = None
            THEN opened(AccessUnitNew, b.current_picture_id, None)
            ELSE opened(b.current_au[1], b.current_picture_id, None)
    IN  IF slice_header # None /\ sps # None
        THEN decided(is_au_boundary(b, nal, slice_header, sps))
        ELSE decided(is_au_boundary(b, nal, None, None))

\* flush_pending that hands out the open access unit and keeps it, where the source takes it
flush_pending_keeps_au(b, v) ==
    IF b.current_au # None
    THEN [b |-> b, completed |-> Some(check_recovery_point(b.current_au[1], v))]
    ELSE [b |-> b, completed |-> None]

\* AccessUnitBuilder::flush_pending : [b, completed]
flush_pending(b, v) ==
    IF b.current_au # None
    THEN [b |-> [current_au |-> None, current_picture_id |-> None],
          completed |-> Some(check_recovery_point(b.current_au[1], v))]
    ELSE [b |-> b, completed |-> None]

(***************************************************************************)
(* bytescan.rs : StartCodeScanner, a record [buffer, position]             *)
(***************************************************************************)
StartCodeScannerNew == [buffer |-> <<>>, position |-> 0]

\* push that replaces the buffer where the source extends it
ScannerPushReplace(sc, data) == [sc EXCEPT !.buffer = data]

\* StartCodeScanner::push
ScannerPush(sc, data) == [sc EXCEPT !.buffer = @ \o data]

RECURSIVE find_from(_, _)
\* the while loop of find_next_start_code, from cursor p
find_from(buf, p) ==
    IF ~(p + 2 < Len(buf)) THEN [found |-> FALSE, pos |-> 0, len |-> 0, position |-> p]
    ELSE IF buf[p + 1] = 0 /\ buf[p + 2] = 0
              /\ p + 3 < Len(buf) /\ buf[p + 3] = 0 /\ buf[p + 4] = 1
         THEN [found |-> TRUE, pos |-> p, len |-> 4, position |-> p + 4]
    ELSE IF buf[p + 1] = 0 /\ buf[p + 2] = 0 /\ buf[p + 3] = 1
         THEN [found |-> TRUE, pos |-> p, len |-> 3, position |-> p + 3]
    ELSE find_from(buf, p + 1)

\* find_next_start_code : [sc, found, pos, len]
find_next_start_code(sc) ==
    LET found(f) ==
            [sc |-> [sc EXCEPT !.position = f.position], found |-> f.found,
             pos |-> f.pos, len |-> f.len]
    IN  found(find_from(sc.buffer, sc.position))

\* next_nal_unit : [sc, span]
next_nal_unit(sc) ==
    LET span(f1, data_start, data_end, sc2) ==
            IF data_start >= data_end
            THEN [sc |-> [sc2 EXCEPT !.position = f1.sc.position], span |-> None]
            ELSE [sc |-> sc2,
                  span |-> Some([start_pos |-> f1.pos, start_code_len |-> f1.len,
                                 data_start |-> data_start, data_end |-> data_end])]
        next_start(f1, f2) ==
            IF f2.found
            THEN span(f1, f1.pos + f1.len, f2.pos, [f2.sc EXCEPT !.position = f2.pos])
            ELSE span(f1, f1.pos + f1.len, Len(sc.buffer), f2.sc)
        start(f1) ==
            IF ~f1.found THEN [sc |-> f1.sc, span |-> None]
            ELSE next_start(f1, find_next_start_code(f1.sc))
    IN  start(find_next_start_code(sc))

get_nal_data(sc, span) == Slice(sc.buffer, span.data_start, span.data_end)

ScannerReset(sc) == [buffer |-> <<>>, position |-> 0]


(***************************************************************************)
(* parser.rs : AnnexBParser, a record [scanner, au_builder, sps_map,       *)
(* pps_map].  The registries are functions from the ids present to the     *)
(* parameter sets (Arc<Sps> / Arc<Pps> are modelled by their values).      *)
(***************************************************************************)
\* Vec<u8> as the allocator sees it: mem is what the current allocation holds (clear()
\* leaves the bytes where they are), len and cap are the Vec's, gen counts the
\* allocations the Vec has had
VecNew == [mem |-> <<>>, len |-> 0, cap |-> 0, gen |-> 0]

\* capacity after a growth to `need` bytes (amortized doubling, at least 8 for a Vec<u8>)
VecGrown(cap, need) ==
    IF 2 * cap >= need /\ 2 * cap >= 8 THEN 2 * cap ELSE IF need >= 8 THEN need ELSE 8

\* Vec::extend_from_slice: in place while the capacity lasts, else into a new allocation
VecExtend(v, data) ==
    IF v.len + Len(data) <= v.cap
    THEN [v EXCEPT !.mem = SubSeq(@, 1, v.len) \o data
                             \o SubSeq(@, v.len + Len(data) + 1, Len(@)),
                   !.len = @ + Len(data)]
    ELSE [mem |-> SubSeq(v.mem, 1, v.len) \o data, len |-> v.len + Len(data),
          cap |-> VecGrown(v.cap, v.len + Len(data)), gen |-> v.gen + 1]

\* Vec::clear
VecClear(v) == [v EXCEPT !.len = 0]

AnnexBParserNew ==
    [scanner |-> StartCodeScannerNew, au_builder |-> AccessUnitBuilderNew,
     sps_map |-> <<>>, pps_map |-> <<>>, buffer_data |-> VecNew]

MapInsert(m, k, v) == [x \in (DOMAIN m) \cup {k} |-> IF x = k THEN v ELSE m[x]]

ParserPush(p, data) == [p EXCEPT !.scanner = ScannerPush(@, data)]

\* a reset that keeps the parameter-set registries, where the source clears them
ParserResetKeepsRegistries(p) ==
    [scanner |-> ScannerReset(p.scanner), au_builder |-> AccessUnitBuilderNew,
     sps_map |-> p.sps_map, pps_map |-> p.pps_map, buffer_data |-> VecClear(p.buffer_data)]

ParserReset(p) ==
    [scanner |-> ScannerReset(p.scanner), au_builder |-> AccessUnitBuilderNew,
     sps_map |-> <<>>, pps_map |-> <<>>, buffer_data |-> VecClear(p.buffer_data)]

Ok == [tag |-> "Ok", id |-> 0]
Err(e) == [tag |-> e, id |-> 0]
ErrId(e, id) == [tag |-> e, id |-> id]

\* a `match nal.nal_type` that empties the registry of the kind of a parameter set that
\* fails to parse, where the source leaves the registries alone
RegisterParameterSetDropOnError(p, nal) ==
    LET sps_arm(s) ==
            IF s.err # "Ok" THEN [p |-> [p EXCEPT !.sps_map = <<>>], err |-> Err(s.err)]
            ELSE [p |-> [p EXCEPT !.sps_map = MapInsert(@, s.sps.seq_parameter_set_id, s.sps)],
                  err |-> Ok]
        pps_arm(q) ==
            IF q.err # "Ok" THEN [p |-> [p EXCEPT !.pps_map = <<>>], err |-> Err(q.err)]
            ELSE [p |-> [p EXCEPT !.pps_map = MapInsert(@, q.pps.pic_parameter_set_id, q.pps)],
                  err |-> Ok]
    IN  IF nal.nal_type = "Sps" THEN sps_arm(SpsParse(to_rbsp(nal)))
        ELSE IF nal.nal_type = "Pps" THEN pps_arm(PpsParse(to_rbsp(nal)))
        ELSE [p |-> p, err |-> Ok]

\* the `match nal.nal_type` of next_access_unit: [p, err]
RegisterParameterSet(p, nal) ==
    LET sps_arm(s) ==
            IF s.err # "Ok" THEN [p |-> p, err |-> Err(s.err)]
            ELSE [p |-> [p EXCEPT !.sps_map = MapInsert(@, s.sps.seq_parameter_set_id, s.sps)],
                  err |-> Ok]
        pps_arm(q) ==
            IF q.err # "Ok" THEN [p |-> p, err |-> Err(q.err)]
            ELSE [p |-> [p EXCEPT !.pps_map = MapInsert(@, q.pps.pic_parameter_set_id, q.pps)],
                  err |-> Ok]
    IN  IF nal.nal_type = "Sps" THEN sps_arm(SpsParse(to_rbsp(nal)))
        ELSE IF nal.nal_type = "Pps" THEN pps_arm(PpsParse(to_rbsp(nal)))
        ELSE [p |-> p, err |-> Ok]

\* a slice block that lets a slice through unresolved when its PPS or SPS is unknown,
\* where the source returns MissingPps / MissingSps
ResolveSliceLenient(p, nal) ==
    LET none == [err |-> Ok, slice_header |-> None, sps |-> None, pps |-> None]
        header(h, sps_ref, pps_ref) ==
            IF h.err # "Ok" THEN [none EXCEPT !.err = Err(h.err)]
            ELSE [err |-> Ok, slice_header |-> Some(h.header),
                  sps |-> Some(sps_ref), pps |-> Some(pps_ref)]
        with_pps(rbsp, pps_ref) ==
            IF pps_ref.seq_parameter_set_id \notin DOMAIN p.sps_map THEN none
            ELSE header(SliceHeaderParse(rbsp, nal.nal_type,
                                         p.sps_map[pps_ref.seq_parameter_set_id], pps_ref),
                        p.sps_map[pps_ref.seq_parameter_set_id], pps_ref)
        minimal(rbsp, temp_header) ==
            IF temp_header.err # "Ok" THEN [none EXCEPT !.err = Err(temp_header.err)]
            ELSE IF temp_header.pps_id \notin DOMAIN p.pps_map THEN none
            ELSE with_pps(rbsp, p.pps_map[temp_header.pps_id])
    IN  IF ~is_slice(nal) THEN none
        ELSE minimal(to_rbsp(nal), parse_slice_header_minimal(to_rbsp(nal)))

\* the `if nal.is_slice()` block of next_access_unit: [err, slice_header, sps, pps]
ResolveSlice(p, nal) ==
    LET none == [err |-> Ok, slice_header |-> None, sps |-> None, pps |-> None]
        header(h, sps_ref, pps_ref) ==
            IF h.err # "Ok" THEN [none EXCEPT !.err = Err(h.err)]
            ELSE [err |-> Ok, slice_header |-> Some(h.header),
                  sps |-> Some(sps_ref), pps |-> Some(pps_ref)]
        with_sps(rbsp, sps_ref, pps_ref) ==
            header(SliceHeaderParse(rbsp, nal.nal_type, sps_ref, pps_ref), sps_ref, pps_ref)
        with_pps(rbsp, pps_ref) ==
            IF pps_ref.seq_parameter_set_id \notin DOMAIN p.sps_map
            THEN [none EXCEPT !.err = ErrId("MissingSps", pps_ref.seq_parameter_set_id)]
            ELSE with_sps(rbsp, p.sps_map[pps_ref.seq_parameter_set_id], pps_ref)
        minimal(rbsp, temp_header) ==
            IF temp_header.err # "Ok" THEN [none EXCEPT !.err = Err(temp_header.err)]
            ELSE IF temp_header.pps_id \notin DOMAIN p.pps_map
            THEN [none EXCEPT !.err = ErrId("MissingPps", temp_header.pps_id)]
            ELSE with_pps(rbsp, p.pps_map[temp_header.pps_id])
        slice(rbsp) == minimal(rbsp, parse_slice_header_minimal(rbsp))
    IN  IF ~is_slice(nal) THEN none ELSE slice(to_rbsp(nal))

\* what the builder was given for one NAL (history of the run, not parser state)
NalEvent(nal, rs) ==
    [ev |-> "nal", nal_type |-> nal.nal_type, vcl |-> is_vcl(nal), ebsp |-> nal.ebsp,
     pid |-> IF rs.slice_header # None
             THEN Some(PictureIdFrom(rs.slice_header[1], nal.nal_type, rs.sps[1]))
             ELSE None]
EmitEvent(by) == [ev |-> "emit", by |-> by]

\* the Nal handed to the builder (parser.rs:93-102): its ebsp is a slice of
\* self.buffer_data, the last Len(nal_data) - 1 bytes just appended.  `ebsp` holds the
\* bytes the slice shows when the Nal is built, `at` says where in buffer_data they lie.
OwnedNal(nal, nal_data, v) ==
    [start_code_len |-> nal.start_code_len, ref_idc |-> nal.ref_idc,
     nal_type |-> nal.nal_type, raw_type |-> nal.raw_type,
     ebsp |-> SubSeq(v.mem, v.len - Len(nal_data) + 2, v.len),
     at |-> [gen |-> v.gen, start |-> v.len - Len(nal_data) + 1, len |-> Len(nal_data) - 1]]

\* one pass of the `loop { .. }` of next_access_unit : [p, res, au, events, fault]
\*   res.tag is "Some", "None", the error, or "Continue" when the pass returns nothing;
\*   events is the history of the pass; fault is the nal_data of the NAL at which the
\*   pass returned an error
next_access_unit_body(p) ==
    LET \* au_builder.add_nal(owned_nal, slice_header, sps, pps)
        added(p2, a, ne) ==
            IF a.completed # None
            THEN [p |-> [p2 EXCEPT !.au_builder = a.b], res |-> [tag |-> "Some", id |-> 0],
                  au |-> a.completed, events |-> <<EmitEvent("boundary"), ne>>,
                  fault |-> None]
            ELSE [p |-> [p2 EXCEPT !.au_builder = a.b], res |-> [tag |-> "Continue", id |-> 0],
                  au |-> None, events |-> <<ne>>, fault |-> None]
        \* self.buffer_data.extend_from_slice(&nal_data) and the owned_nal
        owned(p3, nal, nal_data, rs) ==
            added(p3,
                  BuilderAddNal(p3.au_builder, OwnedNal(nal, nal_data, p3.buffer_data),
                                rs.slice_header, rs.sps, rs.pps, p3.buffer_data),
                  NalEvent(nal, rs))
        \* the `if nal.is_slice()` block
        resolved(p2, nal, nal_data, rs) ==
            IF rs.err.tag # "Ok"
            THEN [p |-> p2, res |-> rs.err, au |-> None, events |-> <<>>,
                  fault |-> Some(nal_data)]
            ELSE owned([p2 EXCEPT !.buffer_data = VecExtend(@, nal_data)], nal, nal_data, rs)
        \* the `match nal.nal_type`
        registered(nal, nal_data, reg) ==
            IF reg.err.tag # "Ok"
            THEN [p |-> reg.p, res |-> reg.err, au |-> None, events |-> <<>>,
                  fault |-> Some(nal_data)]
            ELSE resolved(reg.p, nal, nal_data, ResolveSlice(reg.p, nal))
        \* Nal::parse(span.start_code_len, nal_data)?
        parsed(p1, nal_data, np) ==
            IF np.err # "Ok"
            THEN [p |-> p1, res |-> Err(np.err), au |-> None, events |-> <<>>,
                  fault |-> Some(nal_data)]
            ELSE registered(np.nal, nal_data, RegisterParameterSet(p1, np.nal))
        \* the scanner has no NAL: au_builder.flush_pending()
        flushed(p1, f) ==
            IF f.completed # None
            THEN [p |-> [p1 EXCEPT !.au_builder = f.b], res |-> [tag |-> "Some", id |-> 0],
                  au |-> f.completed, events |-> <<EmitEvent("flush")>>, fault |-> None]
            ELSE [p |-> p1, res |-> [tag |-> "None", id |-> 0], au |-> None,
                  events |-> <<>>, fault |-> None]
        \* let nal_data = self.scanner.get_nal_data(&nal_span).to_vec()
        copied(p1, start_code_len, nal_data) ==
            parsed(p1, nal_data, NalParse(start_code_len, nal_data))
        scanned(p1, span) ==
            IF span = None THEN flushed(p1, flush_pending(p1.au_builder, p1.buffer_data))
            ELSE copied(p1, span[1].start_code_len, get_nal_data(p1.scanner, span[1]))
        \* self.scanner.next_nal_unit()?
        next(n) == scanned([p EXCEPT !.scanner = n.sc], n.span)
    IN  next(next_nal_unit(p.scanner))

RECURSIVE next_access_unit_loop(_, _)
\* AnnexBParser::next_access_unit : [p, res, au, events]
next_access_unit_loop(p, events) ==
    LET pass(o) ==
            IF o.res.tag = "Continue" THEN next_access_unit_loop(o.p, events \o o.events)
            ELSE [o EXCEPT !.events = events \o @]
    IN  pass(next_access_unit_body(p))

next_access_unit(p) == next_access_unit_loop(p, <<>>)


(***************************************************************************)
(* Inputs: Annex-B streams built from concrete NAL units (start code       *)
(* included), the ones of tests/proptests.rs and of the spec's scenarios.  *)
(***************************************************************************)
StartCode3 == <<0, 0, 1>>
StartCode4 == <<0, 0, 0, 1>>

\* build_min_sps_pic_order_cnt_type2(0): 67 42 00 1E DD C4
NalSps == StartCode4 \o <<103, 66, 0, 30, 221, 196>>
\* build_min_pps(0, 0): 68 CE 38 80
NalPps == StartCode4 \o <<104, 206, 56, 128>>
\* build_min_slice(idr = true, pps 0, frame_num 0, idr_pic_id 0): 65 B8 70
NalIdr0 == StartCode3 \o <<101, 184, 112>>
\* build_min_slice(idr = false, pps 0, frame_num 0 / 1): 61 E0 50 / 61 E2 50
NalP0 == StartCode3 \o <<97, 224, 80>>
NalP1 == StartCode3 \o <<97, 226, 80>>
\* access unit delimiter: 09 F0
NalAud == StartCode3 \o <<9, 240>>
\* SEI with one recovery-point message, recovery_frame_cnt 0 / 5: 06 06 02 00 40 80
NalSei0 == StartCode3 \o <<6, 6, 2, 0, 64, 128>>
NalSei5 == StartCode4 \o <<6, 6, 2, 5, 64, 128>>
\* forbidden_zero_bit set: 89
NalBad == StartCode3 \o <<137>>
\* a start code directly followed by the next start code (zero-length NAL)
NalEmpty == StartCode3

Preludes == {<<>>, NalSps \o NalPps}
TailMenu == {NalIdr0, NalP0, NalP1, NalAud, NalSei0, NalSei5, NalBad, NalEmpty}

MaxNals == 3
MaxChunks == 2
MaxIdle == 1

RECURSIVE TailsOfLen(_)
TailsOfLen(n) ==
    IF n = 0 THEN {<<>>}
    ELSE {t \o x : t \in TailsOfLen(n - 1), x \in TailMenu}

StreamsUpTo(n) ==
    {pre \o t : pre \in Preludes, t \in UNION {TailsOfLen(k) : k \in 0..n}} \ {<<>>}

\* the stream of chunking_yields_same_au_count (scenarios 2 and 3): SPS, PPS, IDR, P
Scenario2 == NalSps \o NalPps \o NalIdr0 \o NalP1

\* the streams that are fed in several chunks
ChunkedStreams == {Scenario2} \cup StreamsUpTo(1)

\* build_min_slice(idr = false, pps 1, frame_num 0): 61 D0 28
NalP0Pps1 == StartCode3 \o <<97, 208, 40>>
\* a PPS NAL cut after its header byte: 68
NalPpsCut == StartCode3 \o <<104>>
\* build_min_pps(0, 1), a PPS 0 that names SPS 1: 68 A3 8E 20
NalPpsSps1 == StartCode4 \o <<104, 163, 142, 32>>
\* SEI NALs with malformed content:
\* a recovery-point message of payload_size 3 with two payload bytes left: 06 06 03 00 40
NalSeiCut == StartCode3 \o <<6, 6, 3, 0, 64>>
\* a user-data message whose payload_size 510 is larger than the NAL: 06 05 FF FF 01
NalSeiBig == StartCode3 \o <<6, 5, 255, 255, 1>>
\* a recovery-point message with an empty payload: 06 06 00 80
NalSeiEmpty == StartCode3 \o <<6, 6, 0, 128>>
\* a message cut after its payload_type: 06 06
NalSeiType == StartCode3 \o <<6, 6>>

\* streams with a slice whose parameter sets are missing, or with a broken parameter set
FaultStreams ==
    {NalSps \o NalPps \o NalP0Pps1,
     NalSps \o NalPps \o NalIdr0 \o NalP0Pps1,
     NalPps \o NalP0,
     NalPps \o NalSps \o NalPpsSps1 \o NalIdr0,
     NalSps \o NalPps \o NalPpsCut \o NalP0,
     NalSps \o NalPps \o NalIdr0 \o NalPpsCut}

\* streams whose SEI NALs are malformed, in front of and behind the slice of a non-IDR and
\* of an IDR picture
SeiStreams ==
    {NalSps \o NalPps \o t \o NalP1 :
        t \in UNION {{sei \o pic, pic \o sei} :
                        sei \in {NalSeiCut, NalSeiBig, NalSeiEmpty, NalSeiType,
                                 NalSeiBig \o NalSeiEmpty},
                        pic \in {NalP0, NalIdr0}}}

\* NALs of a reserved and of the unspecified type codes: 74 01 (nal_ref_idc 3, type 20),
\* 38 02 (nal_ref_idc 1, type 24), 20 07 (nal_ref_idc 1, type 0)
NalReserved == StartCode4 \o <<116, 1>>
NalUnspecExt == StartCode3 \o <<56, 2>>
NalUnspec0 == StartCode3 \o <<32, 7>>

\* streams with these NALs alone and between the NALs of two pictures
TypeStreams ==
    {NalReserved \o NalUnspecExt \o NalUnspec0,
     NalSps \o NalPps \o NalIdr0 \o NalReserved \o NalP1 \o NalUnspecExt}

\* the streams of the caller that resets
LifecycleStreams ==
    {NalSps \o NalPps \o NalIdr0 \o NalP1,
     NalSps \o NalPps \o NalP0 \o NalP0,
     NalAud \o NalSei0 \o NalSei5,
     NalAud \o NalSei0,
     NalSps \o NalPps \o NalBad \o NalP0,
     NalSei0 \o NalAud \o NalSps \o NalPps}

(***************************************************************************)
(* The state machine: one AnnexBParser driven by a caller that pushes the  *)
(* stream in chunks and pulls access units.                                *)
(***************************************************************************)
VARIABLES
    scanner,      \* AnnexBParser.scanner
    au_builder,   \* AnnexBParser.au_builder
    sps_map,      \* AnnexBParser.sps_map
    pps_map,      \* AnnexBParser.pps_map
    buffer_data,  \* AnnexBParser.buffer_data
    stream,       \* the whole byte stream the caller feeds
    input,        \* the bytes of stream not pushed yet
    chunks_left,  \* pushes the caller may still make
    ops,          \* history of calls: "push", "reset", or the outcome of next_access_unit
    emitted,      \* history of the access units returned as Ok(Some(au))
    spans,        \* history of the NAL payloads returned by next_nal_unit
    nal_log,      \* history of NALs given to the builder and of AU completions
    last_call,    \* the last next_access_unit: its result and the NAL it failed at
    twin,         \* since the last reset(): a parser made by new(), given the same calls
    twin_agrees,  \* the twin has returned what the parser returned, call by call
    arg,          \* the argument of the function under test (function specifications)
    out           \* what the function did with it

vars == <<scanner, au_builder, sps_map, pps_map, buffer_data, stream, input, chunks_left,
          ops, emitted, spans, nal_log, last_call, twin, twin_agrees, arg, out, freed>>

Parser == [scanner |-> scanner, au_builder |-> au_builder,
           sps_map |-> sps_map, pps_map |-> pps_map, buffer_data |-> buffer_data]

SetParser(p) ==
    /\ scanner' = p.scanner
    /\ au_builder' = p.au_builder
    /\ sps_map' = p.sps_map
    /\ pps_map' = p.pps_map
    /\ buffer_data' = p.buffer_data

\* a caller that has made no call yet
NoCalls ==
    /\ input = stream
    /\ ops = <<>>
    /\ emitted = <<>>
    /\ spans = <<>>
    /\ nal_log = <<>>
    /\ last_call = [res |-> Ok, fault |-> None]
    /\ twin = None
    /\ twin_agrees = TRUE

\* no function under test
NoFunction == arg = <<>> /\ out = <<>>

Init ==
    /\ freed \in FreedShows
    /\ scanner = AnnexBParserNew.scanner
    /\ au_builder = AnnexBParserNew.au_builder
    /\ sps_map = AnnexBParserNew.sps_map
    /\ pps_map = AnnexBParserNew.pps_map
    /\ buffer_data = AnnexBParserNew.buffer_data
    /\ \/ /\ stream \in StreamsUpTo(MaxNals) \cup FaultStreams \cup SeiStreams \cup TypeStreams
          /\ chunks_left = 1
       \/ stream \in ChunkedStreams /\ chunks_left = MaxChunks
    /\ NoCalls
    /\ NoFunction

\* AnnexBParser::push with the next k bytes of the stream
Push(k) ==
    /\ chunks_left > 0
    /\ chunks_left = 1 => k = Len(input)
    /\ SetParser(ParserPush(Parser, SubSeq(input, 1, k)))
    /\ input' = SubSeq(input, k + 1, Len(input))
    /\ chunks_left' = chunks_left - 1
    /\ ops' = Append(ops, "push")
    /\ twin' = IF twin = None THEN None ELSE Some(ParserPush(twin[1], SubSeq(input, 1, k)))
    /\ UNCHANGED <<stream, freed, emitted, spans, nal_log, last_call, twin_agrees, arg, out>>

RECURSIVE IdleCalls(_)
\* Ok(None) results since the last push or reset
IdleCalls(o) ==
    IF o = <<>> \/ o[Len(o)] \in {"push", "reset"} THEN 0
    ELSE (IF o[Len(o)] = "None" THEN 1 ELSE 0) + IdleCalls(SubSeq(o, 1, Len(o) - 1))

\* what the caller can see of an access unit: everything but the addresses of the payloads
Visible(au) ==
    [au EXCEPT !.nals = [i \in 1..Len(au.nals) |->
                            [start_code_len |-> au.nals[i].start_code_len,
                             ref_idc |-> au.nals[i].ref_idc,
                             raw_type |-> au.nals[i].raw_type,
                             ebsp |-> au.nals[i].ebsp]]]

\* what the caller can see of a next_access_unit call
Shown(r) == [res |-> r.res, au |-> IF r.au = None THEN None ELSE Some(Visible(r.au[1]))]

\* AnnexBParser::next_access_unit, called on the parser and, after a reset, on the new
\* parser that is given the same calls
NextAccessUnit ==
    /\ IdleCalls(ops) <= MaxIdle
    /\ LET called(parsers) == [i \in 1..Len(parsers) |-> next_access_unit(parsers[i])]
           returned(r, t) ==
               /\ SetParser(r.p)
               /\ ops' = Append(ops, r.res.tag)
               /\ emitted' = emitted \o r.au
               /\ nal_log' = nal_log \o r.events
               /\ last_call' = [res |-> r.res, fault |-> r.fault]
               /\ twin' = IF t = None THEN None ELSE Some(t[1].p)
               /\ twin_agrees' = (twin_agrees /\ (t # None => Shown(t[1]) = Shown(r)))
           both(rs) == returned(rs[1], Tail(rs))
       IN  both(called(<<Parser>> \o twin))
    /\ UNCHANGED <<stream, freed, input, chunks_left, spans, arg, out>>

Next ==
    \/ \E k \in 1..Len(input) : Push(k)
    \/ NextAccessUnit

Spec == Init /\ [][Next]_vars

(***************************************************************************)
(* The same caller, who may also call reset() and go on with the rest of   *)
(* the stream                                                              *)
(***************************************************************************)
MaxResets == 1

Resets(o) == Cardinality({i \in 1..Len(o) : o[i] = "reset"})

LifecycleInit ==
    /\ freed \in FreedShows
    /\ scanner = AnnexBParserNew.scanner
    /\ au_builder = AnnexBParserNew.au_builder
    /\ sps_map = AnnexBParserNew.sps_map
    /\ pps_map = AnnexBParserNew.pps_map
    /\ buffer_data = AnnexBParserNew.buffer_data
    /\ stream \in LifecycleStreams
    /\ chunks_left = MaxChunks
    /\ NoCalls
    /\ NoFunction

\* AnnexBParser::reset
Reset ==
    /\ Resets(ops) < MaxResets
    /\ SetParser(ParserReset(Parser))
    /\ ops' = Append(ops, "reset")
    /\ twin' = Some(AnnexBParserNew)
    /\ twin_agrees' = TRUE
    /\ UNCHANGED <<stream, freed, input, chunks_left, emitted, spans, nal_log, last_call, arg, out>>

LifecycleNext ==
    \/ \E k \in 1..Len(input) : Push(k)
    \/ NextAccessUnit
    \/ Reset

LifecycleSpec == LifecycleInit /\ [][LifecycleNext]_vars

(***************************************************************************)
(* A caller who pushes the stream in chunks and ends with drain(), which   *)
(* consumes the parser: arg keeps the parser it was called on and out the  *)
(* access units of the iterator it returns                                 *)
(***************************************************************************)
\* AccessUnitBuilder::flush
builder_flush(b, v) ==
    IF b.current_au # None THEN Some(check_recovery_point(b.current_au[1], v)) ELSE None

Drained == \E i \in 1..Len(ops) : ops[i] = "drain"

RECURSIVE DrainLoop(_, _)
\* the `while let Ok(Some(au)) = self.next_access_unit() { results.push(Ok(au)) }` of drain
\* from the parser p with the results so far, then `self.au_builder.flush()`
DrainLoop(p, results) ==
    \E r \in {next_access_unit(p)} :
        IF r.res.tag = "Some" THEN DrainLoop(r.p, results \o r.au)
        ELSE out' = Some(results \o builder_flush(r.p.au_builder, r.p.buffer_data))

\* AnnexBParser::drain
Drain ==
    /\ ~Drained
    /\ arg' = Some([fn |-> "drain", parser |-> Parser])
    /\ DrainLoop(Parser, <<>>)
    /\ ops' = Append(ops, "drain")
    /\ UNCHANGED <<scanner, au_builder, sps_map, pps_map, buffer_data, stream, freed, input,
                   chunks_left, emitted, spans, nal_log, last_call, twin, twin_agrees>>

DrainNext ==
    \/ ~Drained /\ \E k \in 1..Len(input) : Push(k)
    \/ Drain

DrainSpec == Init /\ [][DrainNext]_vars

(***************************************************************************)
(* The scanner on its own: a caller pushes raw bytes into a                *)
(* StartCodeScanner and calls next_nal_unit                                *)
(***************************************************************************)
ScanAlphabet == {0, 1, 66}
MaxScanLen == 5

RECURSIVE ByteSeqs(_)
ByteSeqs(n) ==
    IF n = 0 THEN {<<>>}
    ELSE ByteSeqs(n - 1)
             \cup {Append(s, x) : s \in {t \in ByteSeqs(n - 1) : Len(t) = n - 1}, x \in ScanAlphabet}

ScanInit ==
    /\ freed = "kept"
    /\ scanner = StartCodeScannerNew
    /\ au_builder = AnnexBParserNew.au_builder
    /\ sps_map = AnnexBParserNew.sps_map
    /\ pps_map = AnnexBParserNew.pps_map
    /\ buffer_data = AnnexBParserNew.buffer_data
    /\ stream \in ByteSeqs(MaxScanLen) \ {<<>>}
    /\ chunks_left = MaxChunks
    /\ NoCalls
    /\ NoFunction

\* StartCodeScanner::push with the next k bytes of the stream
ScanPush(k) ==
    /\ chunks_left > 0
    /\ chunks_left = 1 => k = Len(input)
    /\ scanner' = ScannerPush(scanner, SubSeq(input, 1, k))
    /\ input' = SubSeq(input, k + 1, Len(input))
    /\ chunks_left' = chunks_left - 1
    /\ ops' = Append(ops, "push")
    /\ UNCHANGED <<au_builder, sps_map, pps_map, buffer_data, stream, freed, emitted, spans, nal_log,
                   last_call, twin, twin_agrees, arg, out>>

\* StartCodeScanner::next_nal_unit, the caller reading the payload with get_nal_data
ScanNextNal ==
    /\ IdleCalls(ops) <= MaxIdle
    /\ LET returned(r) ==
               /\ scanner' = r.sc
               /\ ops' = Append(ops, IF r.span = None THEN "None" ELSE "Some")
               /\ spans' = IF r.span = None THEN spans
                           ELSE Append(spans, get_nal_data(r.sc, r.span[1]))
       IN  returned(next_nal_unit(scanner))
    /\ UNCHANGED <<au_builder, sps_map, pps_map, buffer_data, stream, freed, input, chunks_left,
                   emitted, nal_log, last_call, twin, twin_agrees, arg, out>>

ScanNext ==
    \/ \E k \in 1..Len(input) : ScanPush(k)
    \/ ScanNextNal

ScanSpec == ScanInit /\ [][ScanNext]_vars

(***************************************************************************)
(* The free functions of the crate on their own: a caller holds one        *)
(* argument and calls the function once; arg is the argument and out the   *)
(* value returned                                                          *)
(***************************************************************************)
RbspAlphabet == {0, 1, 3, 4}
MaxRbspLen == 5

SeqsUpTo(S, n) == UNION {[1..k -> S] : k \in 0..n}

EbspArgs == {[fn |-> "rbsp_to_ebsp", rbsp |-> R] : R \in SeqsUpTo(RbspAlphabet, MaxRbspLen)}

\* values written with write_ue and write_se: the small ones, and those around each
\* power of two, where the length of the code changes
MaxUeSmall == 40
MaxSeSmall == 20

UeValues ==
    (0..MaxUeSmall)
        \cup {(2 ^ k) + d : k \in 6..30, d \in {0 - 2, 0 - 1, 0}}
        \cup {(2 ^ 30) + (2 ^ 29), ((2 ^ 30) - 1) * 2 - 1, ((2 ^ 30) - 1) * 2}

SeValues ==
    ((0 - MaxSeSmall)..MaxSeSmall)
        \cup {s * ((2 ^ k) + d) : k \in 5..29, d \in {0 - 1, 0, 1}, s \in {0 - 1, 1}}
        \cup {(2 ^ 30) - 1, 1 - (2 ^ 30)}

\* the bit that follows the code in the byte buffer read
PadBits == {0, 1}

UeArgs == {[fn |-> "write_ue", value |-> u, pad |-> b] : u \in UeValues, b \in PadBits}

SeArgs == {[fn |-> "write_se", value |-> v, pad |-> b] : v \in SeValues, b \in PadBits}

\* readers that peek_bits is called on: the data, the cursor that earlier read_bit calls
\* left, and the number of bits asked for
PeekAlphabet == {15, 165}
MaxPeekData == 2

PeekCounts == (0..(8 * MaxPeekData + 1)) \cup {32, 33}

PeekArgs ==
    LET reader(data, cursor, n) ==
            [fn |-> "peek_bits", data |-> data, byte_pos |-> cursor \div 8,
             bit_pos |-> cursor % 8, n |-> n]
    IN  {reader(t[1], t[2], t[3]) :
            t \in {u \in SeqsUpTo(PeekAlphabet, MaxPeekData) \X (0..(8 * MaxPeekData)) \X PeekCounts :
                      u[2] <= 8 * Len(u[1])}}

\* readers that more_rbsp_data is called on: the data and the cursor
MoreAlphabet == {0, 16, 128}
MaxMoreData == 2

ReaderAt(data, byte_pos, bit_pos) ==
    [BitReaderNew(data) EXCEPT !.byte_pos = byte_pos, !.bit_pos = bit_pos]

MoreArgs ==
    LET reader(data, cursor) ==
            [fn |-> "more_rbsp_data", data |-> data, byte_pos |-> cursor \div 8,
             bit_pos |-> cursor % 8]
    IN  {reader(t[1], t[2]) :
            t \in {u \in SeqsUpTo(MoreAlphabet, MaxMoreData) \X (0..(8 * MaxMoreData)) :
                      u[2] <= 8 * Len(u[1])}}

\* n bits of x, the most significant one first
BitsOf(n, x) == [i \in 1..n |-> (x \div (2 ^ (n - i))) % 2 # 0]

\* the RBSP bits of an SPS whose syntax elements have the values of v, in the order in
\* which Sps::parse reads them; the elements that v does not name are 0 or false
SpsBits(v) ==
    LET chroma ==
            IF v.profile_idc \in HighProfiles
            THEN write_ue(v.chroma_format_idc)
                     \o (IF v.chroma_format_idc % 256 = 3 THEN <<FALSE>> ELSE <<>>)
                     \o write_ue(0) \o write_ue(0) \o <<FALSE, FALSE>>
            ELSE <<>>
        order ==
            write_ue(v.pic_order_cnt_type)
                \o (IF v.pic_order_cnt_type % 256 = 0
                    THEN write_ue(v.log2_max_pic_order_cnt_lsb_minus4) ELSE <<>>)
        size ==
            write_ue(v.pic_width_in_mbs_minus1) \o write_ue(v.pic_height_in_map_units_minus1)
                \o <<v.frame_mbs_only_flag>>
                \o (IF v.frame_mbs_only_flag THEN <<>> ELSE <<FALSE>>)
                \o <<TRUE>>
        crop ==
            <<v.frame_cropping_flag>>
                \o (IF v.frame_cropping_flag
                    THEN write_ue(v.frame_crop_left_offset) \o write_ue(v.frame_crop_right_offset)
                             \o write_ue(v.frame_crop_top_offset)
                             \o write_ue(v.frame_crop_bottom_offset)
                    ELSE <<>>)
    IN  BitsOf(8, v.profile_idc) \o BitsOf(8, 0) \o BitsOf(8, 30)
            \o write_ue(v.seq_parameter_set_id) \o chroma
            \o write_ue(v.log2_max_frame_num_minus4) \o order
            \o write_ue(1) \o <<FALSE>> \o size \o crop \o <<FALSE>> \o <<TRUE>>

\* Sps::parse on the SPS coded from the values of ids (seq_parameter_set_id,
\* chroma_format_idc, log2_max_frame_num_minus4, pic_order_cnt_type,
\* log2_max_pic_order_cnt_lsb_minus4), size (width and height in units, frame_mbs_only_flag)
\* and crop (frame_cropping_flag, left, right, top, bottom)
SpsCoded(profile_idc, ids, size, crop) ==
    [fn |-> "Sps::parse",
     v |-> [profile_idc |-> profile_idc, seq_parameter_set_id |-> ids[1],
            chroma_format_idc |-> ids[2], log2_max_frame_num_minus4 |-> ids[3],
            pic_order_cnt_type |-> ids[4], log2_max_pic_order_cnt_lsb_minus4 |-> ids[5],
            pic_width_in_mbs_minus1 |-> size[1], pic_height_in_map_units_minus1 |-> size[2],
            frame_mbs_only_flag |-> size[3], frame_cropping_flag |-> crop[1],
            frame_crop_left_offset |-> crop[2], frame_crop_right_offset |-> crop[3],
            frame_crop_top_offset |-> crop[4], frame_crop_bottom_offset |-> crop[5]]]

\* SPSs of a 16 x 16 picture with the five range-checked elements at, just above and far
\* above their limits
SpsRangeArgs ==
    {SpsCoded(t[1], t[2], <<0, 0, TRUE>>, <<FALSE, 0, 0, 0, 0>>) :
        t \in {66, 100} \X ({0, 31, 32} \X {1, 3, 4, 256} \X {0, 12, 13, 256}
                               \X {0, 2, 3, 256} \X {0, 12, 13, 256})}

\* SPSs with small and with very large picture sizes, uncropped and cropped by up to
\* more than the picture has
SpsSizeArgs ==
    {SpsCoded(t[1][1], <<0, t[1][2], 0, 2, 0>>, t[2], t[3]) :
        t \in {<<66, 1>>, <<100, 0>>, <<100, 2>>, <<100, 3>>}
                  \X ({0, 1, (2 ^ 28) - 1} \X {0, 1, (2 ^ 28) - 1} \X BOOLEAN)
                  \X ({<<FALSE, 0, 0, 0, 0>>} \cup ({TRUE} \X {0, 9} \X {0, 8} \X {0, 9} \X {0}))}

\* the smallest k with 2^k >= n
RECURSIVE CeilLog2(_)
CeilLog2(n) == IF n <= 1 THEN 0 ELSE 1 + CeilLog2((n + 1) \div 2)

\* the RBSP bits of a PPS with slice_group_map_type 6 whose syntax elements have the values
\* of v, in the order in which Pps::parse reads them, each slice-group id written with
\* ceil(log2(num_slice_groups)) bits; the elements that v does not name are 0 or false
PpsBits(v) ==
    write_ue(0) \o write_ue(0) \o <<FALSE, FALSE>>
        \o write_ue(v.num_slice_groups_minus1) \o write_ue(6)
        \o write_ue(Len(v.slice_group_id) - 1)
        \o Flatten([i \in 1..Len(v.slice_group_id) |->
                       BitsOf(CeilLog2(v.num_slice_groups_minus1 + 1), v.slice_group_id[i])])
        \o write_ue(v.num_ref_idx_l0_default_active_minus1)
        \o write_ue(v.num_ref_idx_l1_default_active_minus1)
        \o <<FALSE, FALSE, FALSE>>
        \o write_se(v.pic_init_qp_minus26) \o write_se(0) \o write_se(v.chroma_qp_index_offset)
        \o <<FALSE, FALSE, FALSE, TRUE>>

\* the numbers of slice groups and of map units of the PPSs given to Pps::parse
SliceGroupCounts == {2, 3, 4, 5, 8}
MaxMapUnits == 2

\* PPSs with 2 to 8 slice groups, powers of two or not, and one or two map units
PpsGroupArgs ==
    {[fn |-> "Pps::parse",
      v |-> [num_slice_groups_minus1 |-> t[1] - 1,
             slice_group_id |-> t[2],
             num_ref_idx_l0_default_active_minus1 |-> t[3][1],
             num_ref_idx_l1_default_active_minus1 |-> t[3][2],
             pic_init_qp_minus26 |-> t[3][3],
             chroma_qp_index_offset |-> t[3][4]]] :
        t \in {u \in SliceGroupCounts \X (SeqsUpTo(0..7, MaxMapUnits) \ {<<>>})
                         \X {<<0, 0, 0, 0>>, <<5, 1, -3, 2>>, <<31, 0, 25, -12>>} :
                  \A i \in 1..Len(u[2]) : u[2][i] \in {0, u[1] - 1}}}

FnArgs == EbspArgs \cup UeArgs \cup SeArgs \cup PeekArgs \cup MoreArgs \cup SpsRangeArgs \cup SpsSizeArgs
              \cup PpsGroupArgs

FnInit ==
    /\ freed = "kept"
    /\ scanner = AnnexBParserNew.scanner
    /\ au_builder = AnnexBParserNew.au_builder
    /\ sps_map = AnnexBParserNew.sps_map
    /\ pps_map = AnnexBParserNew.pps_map
    /\ buffer_data = AnnexBParserNew.buffer_data
    /\ stream = <<>>
    /\ chunks_left = 0
    /\ NoCalls
    /\ arg \in {Some(a) : a \in FnArgs}
    /\ out = None

Called(fn) == arg # None /\ arg[1].fn = fn /\ out = None

Returns(x) ==
    /\ out' = Some(x)
    /\ UNCHANGED <<scanner, au_builder, sps_map, pps_map, buffer_data, stream, freed, input,
                   chunks_left, ops, emitted, spans, nal_log, last_call, twin, twin_agrees,
                   arg>>

\* rbsp_to_ebsp(&rbsp), then ebsp_to_rbsp on what it returned
EbspRoundTrip ==
    /\ Called("rbsp_to_ebsp")
    /\ LET decoded(ebsp) == [ebsp |-> ebsp, rbsp |-> ebsp_to_rbsp(ebsp)]
       IN  Returns(decoded(rbsp_to_ebsp(arg[1].rbsp)))

\* the bytes a BitReader reads the bits from: most significant bit first, the last
\* byte filled up with pad
PackBits(bits, pad) ==
    LET bit(i) == IF i <= Len(bits) THEN (IF bits[i] THEN 1 ELSE 0) ELSE pad
    IN  [k \in 1..((Len(bits) + 7) \div 8) |->
            bit(8 * k - 7) * 128 + bit(8 * k - 6) * 64 + bit(8 * k - 5) * 32
                + bit(8 * k - 4) * 16 + bit(8 * k - 3) * 8 + bit(8 * k - 2) * 4
                + bit(8 * k - 1) * 2 + bit(8 * k)]

\* what a read returned and where it left the reader
Decoded(bits, d) ==
    [bits |-> bits, err |-> d.r.err, value |-> d.v, consumed |-> 8 * d.r.byte_pos + d.r.bit_pos]

\* write_ue(value), then read_ue on a reader over the bits
UeRoundTrip ==
    /\ Called("write_ue")
    /\ LET read(bits) == Decoded(bits, read_ue(BitReaderNew(PackBits(bits, arg[1].pad))))
       IN  Returns(read(write_ue(arg[1].value)))

\* write_se(value), then read_se on a reader over the bits
SeRoundTrip ==
    /\ Called("write_se")
    /\ LET read(bits) == Decoded(bits, read_se(BitReaderNew(PackBits(bits, arg[1].pad))))
       IN  Returns(read(write_se(arg[1].value)))

\* reader.peek_bits(n)
PeekBits ==
    /\ Called("peek_bits")
    /\ LET reader == [BitReaderNew(arg[1].data) EXCEPT !.byte_pos = arg[1].byte_pos,
                                                        !.bit_pos = arg[1].bit_pos]
           peeked(b) == [err |-> b.r.err, value |-> b.v, byte_pos |-> b.r.byte_pos,
                         bit_pos |-> b.r.bit_pos]
       IN  Returns(peeked(peek_bits(reader, arg[1].n)))

\* reader.more_rbsp_data()
MoreRbspData ==
    /\ Called("more_rbsp_data")
    /\ Returns([value |-> more_rbsp_data(ReaderAt(arg[1].data, arg[1].byte_pos, arg[1].bit_pos))])

\* Sps::parse(&rbsp): the fields decoded and the dimensions derived from them
SpsParseCall ==
    /\ Called("Sps::parse")
    /\ LET derived(p) ==
               IF p.err # "Ok" THEN p
               ELSE [err |-> "Ok", sps |-> p.sps, width |-> SpsWidth(p.sps),
                     height |-> SpsHeight(p.sps)]
       IN  Returns(derived(SpsParse(PackBits(SpsBits(arg[1].v), 0))))

\* Pps::parse on the RBSP of the coded PPS
PpsParseCall ==
    /\ Called("Pps::parse")
    /\ Returns(PpsParse(PackBits(PpsBits(arg[1].v), 0)))

FnNext ==
    \/ EbspRoundTrip
    \/ UeRoundTrip
    \/ SeRoundTrip
    \/ PeekBits
    \/ MoreRbspData
    \/ SpsParseCall
    \/ PpsParseCall

FnSpec == FnInit /\ [][FnNext]_vars


(***************************************************************************)
(* Reference runs and views used by the properties                         *)
(***************************************************************************)
RECURSIVE PullUntilNone(_)
\* the access units of `loop { next_access_unit() }` left at the first Ok(None)
PullUntilNone(p) ==
    LET r == next_access_unit(p)
    IN  IF r.res.tag = "None" THEN <<>> ELSE r.au \o PullUntilNone(r.p)

RECURSIVE PullWhileSome(_)
\* the access units of `while let Ok(Some(au)) = next_access_unit()`
PullWhileSome(p) ==
    LET r == next_access_unit(p)
    IN  IF r.res.tag # "Some" THEN <<>> ELSE r.au \o PullWhileSome(r.p)

SinglePush == ParserPush(AnnexBParserNew, stream)

RECURSIVE ScanUntilNone(_)
\* the payloads of `while let Some(span) = next_nal_unit()`
ScanUntilNone(sc) ==
    LET r == next_nal_unit(sc)
    IN  IF r.span = None THEN <<>>
        ELSE <<get_nal_data(r.sc, r.span[1])>> \o ScanUntilNone(r.sc)

NalTypes(au) == [i \in 1..Len(au.nals) |-> au.nals[i].raw_type]
\* count, NAL ordering and PictureId of a run
Summaries(aus) ==
    [i \in 1..Len(aus) |-> [nal_types |-> NalTypes(aus[i]), picture_id |-> aus[i].picture_id]]
\* count, NAL counts and keyframe flags of a run
Flags(aus) ==
    [i \in 1..Len(aus) |-> [nals |-> Len(aus[i].nals), is_keyframe |-> aus[i].is_keyframe]]

\* the caller pushed, pulled until the first Ok(None), pushed again, ...
DrainedAfterEachPush(o) ==
    /\ o # <<>>
    /\ o[1] = "push"
    /\ o[Len(o)] = "None"
    /\ \A i \in 2..Len(o) : o[i] = "push" => o[i - 1] = "None"
    /\ \A i \in 1..(Len(o) - 1) : o[i] = "None" => o[i + 1] = "push"

\* the caller pushed everything, then pulled while Ok(Some), and has just stopped
PushedThenPulled(o) ==
    /\ Len(o) >= 2
    /\ o[Len(o)] \notin {"push", "Some"}
    /\ \E k \in 1..(Len(o) - 1) :
          /\ \A i \in 1..k : o[i] = "push"
          /\ \A i \in (k + 1)..(Len(o) - 1) : o[i] = "Some"

IsNalEvent(i) == nal_log[i].ev = "nal"
IsVclEvent(i) == nal_log[i].ev = "nal" /\ nal_log[i].vcl
IsBoundaryEmit(i) == nal_log[i].ev = "emit" /\ nal_log[i].by = "boundary"
EmitIndexes == {i \in 1..Len(nal_log) : nal_log[i].ev = "emit"}
\* index in nal_log of the k-th completion (0 for k = 0)
EmitIndex(k) ==
    IF k = 0 THEN 0
    ELSE CHOOSE i \in EmitIndexes : Cardinality({j \in EmitIndexes : j <= i}) = k
\* the nal_log indexes of the NALs of the k-th completed access unit
NalsOfAu(k) == {i \in (EmitIndex(k - 1) + 1)..(EmitIndex(k) - 1) : IsNalEvent(i)}

\* the NALs held by the access units of a run: the emitted ones, then the open one
Held ==
    Flatten([i \in 1..Len(emitted) |-> emitted[i].nals])
        \o (IF au_builder.current_au = None THEN <<>> ELSE au_builder.current_au[1].nals)
\* the NALs that were given to the builder, in the order they were given
Given == SelectSeq(nal_log, LAMBDA e : e.ev = "nal")
\* the NAL the last call failed at, as Nal::parse reads it
FaultNal == NalParse(3, last_call.fault[1]).nal
IsSliceFault ==
    /\ last_call.fault # None
    /\ NalParse(3, last_call.fault[1]).err = "Ok"
    /\ is_slice(FaultNal)
    /\ parse_slice_header_minimal(to_rbsp(FaultNal)).err = "Ok"
FaultPpsId == parse_slice_header_minimal(to_rbsp(FaultNal)).pps_id

RECURSIVE Installed(_, _)
\* the registries [sps_map, pps_map] that the first n given NALs install: each SPS and
\* PPS among them under its own id, a later one in place of an earlier one of that id
Installed(given, n) ==
    LET before == Installed(given, n - 1)
        sps == SpsParse(ebsp_to_rbsp(given[n].ebsp)).sps
        pps == PpsParse(ebsp_to_rbsp(given[n].ebsp)).pps
    IN  IF n = 0 THEN [sps_map |-> <<>>, pps_map |-> <<>>]
        ELSE IF given[n].nal_type = "Sps"
        THEN [before EXCEPT !.sps_map = MapInsert(@, sps.seq_parameter_set_id, sps)]
        ELSE IF given[n].nal_type = "Pps"
        THEN [before EXCEPT !.pps_map = MapInsert(@, pps.pic_parameter_set_id, pps)]
        ELSE before

IsError(res) == res.tag \notin {"Ok", "Some", "None"}

\* type and payload of each NAL of a list
TypesAndPayloads(nals) == [i \in 1..Len(nals) |-> <<nals[i].nal_type, nals[i].ebsp>>]
ErrorFree(o) == \A i \in 1..Len(o) : o[i] \in {"push", "Some", "None"}

(***************************************************************************)
(* Properties                                                              *)
(***************************************************************************)

\* C1: for every stream and every partition of it into chunks, pushing the chunks in
\* order and pulling next_access_unit until Ok(None) after each push emits the same
\* access units (count, NAL ordering per AU, PictureIds) as a single push of the stream.
C1_ChunkedDrainEqualsSinglePush ==
    (input = <<>> /\ DrainedAfterEachPush(ops))
        => Summaries(emitted) = Summaries(PullUntilNone(SinglePush))

\* C2: a parser that received every chunk through push and only then is pulled until
\* next_access_unit stops returning Ok(Some) emits the same number of access units, with
\* the same NAL counts and is_keyframe flags, as a parser that received the stream in one push.
C2_PushAllThenPullEqualsSinglePush ==
    (input = <<>> /\ PushedThenPulled(ops))
        => Flags(emitted) = Flags(PullWhileSome(SinglePush))

\* C2 witness: the stream went in as two chunks, was then pulled, and gave several AUs.
C2_Witness ==
    /\ input = <<>>
    /\ PushedThenPulled(ops)
    /\ ops[2] = "push"
    /\ Len(emitted) >= 2

\* C3: for every byte stream and every partition of it into chunks, pushing the chunks
\* into a StartCodeScanner and calling next_nal_unit until it returns None after each push
\* gives the same NAL spans (count and payload bytes) as pushing the whole stream at once.
C3_ScannerChunkingInvariant ==
    (input = <<>> /\ DrainedAfterEachPush(ops))
        => spans = ScanUntilNone(ScannerPush(StartCodeScannerNew, stream))

\* C4: once next_access_unit has returned Ok(None), every later call made without an
\* intervening push returns Ok(None) too.
C4_EofIdempotent ==
    \A i \in 1..Len(ops) : \A j \in (i + 1)..Len(ops) :
        (ops[i] = "None" /\ \A k \in i..j : ops[k] # "push") => ops[j] = "None"

\* C5: every emitted access unit has is_keyframe iff kind = Idr or kind = RecoveryPoint(0).
C5_KeyframeIffIdrOrRecovery0 ==
    \A i \in 1..Len(emitted) :
        emitted[i].is_keyframe
            <=> (emitted[i].kind = KindIdr \/ emitted[i].kind = KindRecoveryPoint(0))

\* C6: every emitted access unit that contains an IdrSlice NAL has kind = Idr and
\* is_keyframe = TRUE, whatever SEI NALs it contains.
C6_IdrTakesPrecedence ==
    \A i \in 1..Len(emitted) :
        (\E n \in 1..Len(emitted[i].nals) : emitted[i].nals[n].nal_type = "IdrSlice")
            => (emitted[i].kind = KindIdr /\ emitted[i].is_keyframe)

\* C7: scenario 1: the stream SPS, PPS, IDR slice, pushed and pulled until Ok(None), gives
\* exactly one access unit, with the NALs SPS, PPS, IdrSlice in that order, kind = Idr,
\* is_keyframe = TRUE and both parameter-set handles set.
C7_Scenario1OneAccessUnit ==
    (stream = NalSps \o NalPps \o NalIdr0 /\ input = <<>> /\ DrainedAfterEachPush(ops)
        /\ ops[2] # "push" /\ Len(ops) > 2)
    => /\ Len(emitted) = 1
       /\ [n \in 1..Len(emitted[1].nals) |-> emitted[1].nals[n].nal_type]
              = <<"Sps", "Pps", "IdrSlice">>
       /\ emitted[1].kind = KindIdr
       /\ emitted[1].is_keyframe
       /\ emitted[1].sps # None
       /\ emitted[1].pps # None

\* C8: an AUD that arrives between the slices of two pictures makes exactly one boundary,
\* at the AUD: the AUD and the slice after it are in the same access unit (no completion
\* between them), and one completion separates the slice before it from the AUD.
C8_AudSingleBoundary ==
    \A i \in 3..(Len(nal_log) - 1) :
        (/\ IsNalEvent(i) /\ nal_log[i].nal_type = "Aud"
         /\ nal_log[i - 1].ev = "emit" /\ IsVclEvent(i - 2)
         /\ \E j \in (i + 1)..Len(nal_log) :
               /\ IsVclEvent(j)
               /\ nal_log[j].pid # nal_log[i - 2].pid
               /\ \A k \in (i + 1)..(j - 1) : IsBoundaryEmit(k))
        => IsVclEvent(i + 1)

\* C9: two VCL NALs (with resolved SPS/PPS) that reach the builder consecutively, with no
\* NAL and no drain between them, are in the same access unit iff their PictureIds are equal.
C9_SameAuIffSamePictureId ==
    \A i \in 1..Len(nal_log) : \A j \in (i + 1)..Len(nal_log) :
        (IsVclEvent(i) /\ IsVclEvent(j) /\ \A k \in (i + 1)..(j - 1) : IsBoundaryEmit(k))
        => ((j = i + 1) <=> (nal_log[i].pid = nal_log[j].pid))

\* C9 witness: two consecutive slices of one picture share an access unit and a slice of
\* another picture follows behind a boundary.
C9_Witness ==
    \E i \in 1..(Len(nal_log) - 3) :
        /\ IsVclEvent(i) /\ IsVclEvent(i + 1) /\ nal_log[i].pid = nal_log[i + 1].pid
        /\ IsBoundaryEmit(i + 2)
        /\ IsVclEvent(i + 3) /\ nal_log[i + 3].pid # nal_log[i].pid

\* C10: in every emitted access unit all VCL NALs have the same PictureId, and it is the
\* picture_id of the access unit (the k-th emitted unit holds the NALs logged before the
\* k-th completion).
C10_OnePictureIdPerAu ==
    /\ Cardinality(EmitIndexes) = Len(emitted)
    /\ \A k \in 1..Len(emitted) :
          /\ Cardinality(NalsOfAu(k)) = Len(emitted[k].nals)
          /\ \A i \in NalsOfAu(k) :
                nal_log[i].vcl => (nal_log[i].pid # None /\ nal_log[i].pid = emitted[k].picture_id)

\* C10 witness: an emitted access unit holds two slices.
C10_Witness ==
    \E k \in 1..Len(emitted) :
        Cardinality({i \in NalsOfAu(k) : nal_log[i].vcl}) >= 2

\* C11: a next_access_unit call that meets a slice NAL whose pic_parameter_set_id is not
\* in the PPS registry returns Err(MissingPps(id)); one whose PPS is there but names an
\* SPS that is not in the SPS registry returns Err(MissingSps(id)); the slice is not given
\* to the builder: every VCL NAL held by an access unit had its header resolved, and the
\* access units hold exactly the NALs that were given.
C11_MissingParameterSets ==
    /\ IsSliceFault =>
         /\ FaultPpsId \notin DOMAIN pps_map
               => last_call.res = ErrId("MissingPps", FaultPpsId)
         /\ (/\ FaultPpsId \in DOMAIN pps_map
             /\ pps_map[FaultPpsId].seq_parameter_set_id \notin DOMAIN sps_map)
               => last_call.res = ErrId("MissingSps", pps_map[FaultPpsId].seq_parameter_set_id)
    /\ \A i \in 1..Len(Given) : Given[i].vcl => Given[i].pid # None
    /\ Len(Held) = Len(Given)
    /\ last_call.res.tag \in {"MissingPps", "MissingSps"} => IsSliceFault

\* C11 witness: scenario 6, a slice names PPS 1 while PPS 0 alone is registered, after an
\* access unit was emitted.
C11_Witness ==
    /\ last_call.res = ErrId("MissingPps", 1)
    /\ DOMAIN pps_map = {0}
    /\ IsSliceFault
    /\ emitted # <<>>

\* C12: when next_access_unit has returned an error, the SPS and PPS registries hold
\* exactly what the NALs before the faulting NAL installed (those of the same call
\* included): the faulting NAL has added, removed or replaced nothing.
C12_RegistryKeptOnError ==
    IsError(last_call.res) =>
        /\ sps_map = Installed(Given, Len(Given)).sps_map
        /\ pps_map = Installed(Given, Len(Given)).pps_map

\* C12 witness: the call failed at a broken PPS, after an SPS and a PPS were installed
\* in the same call.
C12_Witness ==
    /\ IsError(last_call.res)
    /\ last_call.fault # None
    /\ NalParse(3, last_call.fault[1]).err = "Ok"
    /\ FaultNal.nal_type = "Pps"
    /\ DOMAIN sps_map = {0}
    /\ DOMAIN pps_map = {0}
    /\ Len(ops) = 2

C14_NalsInStreamOrder ==
    ErrorFree(ops) =>
        /\ TypesAndPayloads(Held) = TypesAndPayloads(Given)
        /\ (ops # <<>> /\ ops[Len(ops)] = "None") => au_builder.current_au = None

\* C14 witness: a drained run without errors that emitted several access units, one of
\* them with several NALs of different types.
C14_Witness ==
    /\ ErrorFree(ops)
    /\ ops # <<>> /\ ops[Len(ops)] = "None"
    /\ Len(emitted) >= 2
    /\ \E k \in 1..Len(emitted) :
          /\ Len(emitted[k].nals) >= 2
          /\ emitted[k].nals[1].nal_type # emitted[k].nals[2].nal_type

\* C15: start-code preference: whatever the pushes and scans so far, the start code that
\* next_nal_unit reports next is never a 3-byte start code whose first byte follows a 00,
\* i.e. the last three bytes of a 00 00 00 01 of the buffer: those four bytes are one
\* 4-byte start code that starts at the first 00.
C15_FourByteStartCodePreferred ==
    LET reported(r) ==
            r.span # None =>
                ~(/\ r.span[1].start_code_len = 3
                  /\ r.span[1].start_pos >= 1
                  /\ scanner.buffer[r.span[1].start_pos] = 0)
    IN  reported(next_nal_unit(scanner))

\* C16: the scanner does not consume a NAL that has no later start code after it while
\* bytes of the stream are still to be pushed: a span that next_nal_unit returns with its
\* payload ending at the end of the buffer (no following start code) is returned only
\* when the whole stream has been pushed.
C16_TerminalNalOnlyAtEndOfStream ==
    LET returned(r) ==
            (r.span # None /\ r.span[1].data_end = Len(scanner.buffer)) => input = <<>>
    IN  returned(next_nal_unit(scanner))

\* Nal.ebsp of a NAL built by next_access_unit is a reference into the parser's
\* buffer_data (transmuted to 'static): it is live while buffer_data still has the
\* allocation the reference was taken from, and reading through it then gives the bytes
\* that the allocation holds now.  Once buffer_data has been reallocated the reference
\* dangles and a read through it is undefined: no outcome is guaranteed.
\* C17: after any later push, next_access_unit and reset calls, the EBSP of every NAL of
\* every access unit emitted so far still reads as the bytes taken from the stream when
\* the NAL was built: its storage has not been freed by a growth of the parser's buffer
\* and has not been overwritten after a clearing of it.
C17_EmittedEbspStable ==
    \A i \in 1..Len(emitted) : \A j \in 1..Len(emitted[i].nals) :
        LET stable(nal) == EbspLive(buffer_data, nal) /\ EbspRead(buffer_data, nal) = nal.ebsp
        IN  stable(emitted[i].nals[j])

FourZeros(R) == \E i \in 1..(Len(R) - 3) : \A k \in 0..3 : R[i + k] = 0

\* C18: EBSP round trip: when rbsp_to_ebsp has been applied to an RBSP R that has no four
\* consecutive zero bytes and ebsp_to_rbsp to its result, the bytes obtained are R.
C18_EbspRoundTrip ==
    (arg # None /\ arg[1].fn = "rbsp_to_ebsp" /\ out # None /\ ~FourZeros(arg[1].rbsp))
        => out[1].rbsp = arg[1].rbsp

\* an RBSP with 00 00 03 and 00 00 00 in it went through: both escapes were inserted
\* and removed again
C18_Witness ==
    /\ arg # None /\ arg[1].fn = "rbsp_to_ebsp" /\ out # None
    /\ arg[1].rbsp = <<0, 0, 3, 0, 0>>
    /\ out[1].ebsp = <<0, 0, 3, 3, 0, 0>>
    /\ out[1].rbsp = arg[1].rbsp

C20_PeekBitsKeepsCursor ==
    (arg # None /\ arg[1].fn = "peek_bits" /\ out # None) =>
        /\ out[1].byte_pos = arg[1].byte_pos
        /\ out[1].bit_pos = arg[1].bit_pos

\* the bits of data from the cursor to the end
RemainingBits(data, byte_pos, bit_pos) ==
    [i \in 1..(8 * Len(data) - (8 * byte_pos + bit_pos)) |->
        Bit(data[((8 * byte_pos + bit_pos + i - 1) \div 8) + 1], (8 * byte_pos + bit_pos + i - 1) % 8)]

\* a single 1 followed only by zeros
StopBitThenZeros(bits) == bits # <<>> /\ bits[1] = 1 /\ \A i \in 2..Len(bits) : bits[i] = 0

\* C21: for every byte slice and cursor, more_rbsp_data returns false exactly when no
\* bits remain from the cursor to the end of the slice or the remaining bits are a
\* single 1 followed only by zeros; otherwise it returns true.
C21_MoreRbspDataIsReference ==
    (arg # None /\ arg[1].fn = "more_rbsp_data" /\ out # None) =>
        LET reference(bits) == ~(bits = <<>> \/ StopBitThenZeros(bits))
        IN  out[1].value = reference(RemainingBits(arg[1].data, arg[1].byte_pos, arg[1].bit_pos))

\* C22: Sps::parse fails for every SPS in which the coded value of seq_parameter_set_id
\* exceeds 31, of chroma_format_idc (coded for the high profiles) exceeds 3, of
\* log2_max_frame_num_minus4 exceeds 12, of pic_order_cnt_type exceeds 2, or of
\* log2_max_pic_order_cnt_lsb_minus4 (coded when pic_order_cnt_type is read as 0)
\* exceeds 12.
C22_SpsRangesRejected ==
    (arg # None /\ arg[1].fn = "Sps::parse" /\ out # None) =>
        LET exceeds(v) ==
                \/ v.seq_parameter_set_id > 31
                \/ v.profile_idc \in HighProfiles /\ v.chroma_format_idc > 3
                \/ v.log2_max_frame_num_minus4 > 12
                \/ v.pic_order_cnt_type > 2
                \/ v.pic_order_cnt_type % 256 = 0 /\ v.log2_max_pic_order_cnt_lsb_minus4 > 12
        IN  exceeds(arg[1].v) => out[1].err # "Ok"

\* C23: for every SPS that Sps::parse accepts, no step of the 32-bit computation of the
\* post-crop width and height overflows or goes below zero, so the stored dimensions
\* are the exact values of the formula.
C23_DimensionsExact ==
    (arg # None /\ arg[1].fn = "Sps::parse" /\ out # None /\ out[1].err = "Ok") =>
        out[1].width.ok /\ out[1].height.ok

\* the messages SeiMessage::parse gives for the SEI NALs of an access unit
SeiMessagesOf(au) ==
    Flatten([n \in 1..Len(au.nals) |->
                IF au.nals[n].nal_type = "Sei" THEN SeiParse(to_rbsp(au.nals[n])) ELSE <<>>])

HasIdrSlice(au) == \E n \in 1..Len(au.nals) : au.nals[n].nal_type = "IdrSlice"

\* C24: whatever the SEI NALs of an access unit hold, no next_access_unit call returns an
\* error at a SEI NAL (one whose header byte is well formed), and an emitted access unit
\* none of whose SEI messages decodes to a recovery point has the kind and is_keyframe its
\* slices alone give it: Idr and TRUE with an IDR slice, NonIdr and FALSE without.
C24_SeiFailuresLocalized ==
    /\ (last_call.fault # None /\ last_call.fault[1] # <<>> /\ last_call.fault[1][1] < 128)
          => last_call.fault[1][1] % 32 # 6
    /\ \A i \in 1..Len(emitted) :
          (\A m \in 1..Len(SeiMessagesOf(emitted[i])) :
                SeiMessagesOf(emitted[i])[m].payload.kind # "RecoveryPoint")
          => /\ emitted[i].kind = (IF HasIdrSlice(emitted[i]) THEN KindIdr ELSE KindNonIdr)
             /\ emitted[i].is_keyframe = HasIdrSlice(emitted[i])

\* the stream of scenario 4: SPS, PPS, SEI with one recovery-point message (payload_type 6,
\* payload_size 2, payload 00 40), non-IDR slice
Scenario4 == NalSps \o NalPps \o NalSei0 \o NalP0

\* C25: scenario 4: every access unit emitted for the stream of scenario 4 that contains the
\* non-IDR slice has kind = RecoveryPoint(0) and is_keyframe = TRUE.
C25_Scenario4RecoveryPoint ==
    stream = Scenario4 =>
        \A i \in 1..Len(emitted) :
            (\E n \in 1..Len(emitted[i].nals) : emitted[i].nals[n].nal_type = "NonIdrSlice")
                => (emitted[i].kind = KindRecoveryPoint(0) /\ emitted[i].is_keyframe)

\* the offsets of the byte patterns 00 00 01 in a buffer: every start code holds one
StartCodes(buf) ==
    {i \in 1..(Len(buf) - 2) : buf[i] = 0 /\ buf[i + 1] = 0 /\ buf[i + 2] = 1}

\* the calls made since the last push
SinceLastPush(o) == {i \in 1..Len(o) : \A j \in i..Len(o) : o[j] # "push"}

\* C26: calls of next_access_unit without a further push return Ok(Some) finitely often:
\* the calls since the last push that returned Ok(Some) are at most the start codes in the
\* scanner's buffer plus one, so the loop `while let Ok(Some(_)) = next_access_unit()` ends
\* within that many iterations; and every call returns, since over all calls the scanner
\* hands the parser at most one NAL per start code.
C26_PullLoopTerminates ==
    /\ Cardinality({i \in SinceLastPush(ops) : ops[i] = "Some"})
          <= Cardinality(StartCodes(scanner.buffer)) + 1
    /\ Cardinality({i \in 1..Len(nal_log) : IsNalEvent(i)})
          <= Cardinality(StartCodes(scanner.buffer))

\* C26 witness: the whole stream was pushed, the calls after the last push returned
\* Ok(Some) four times and then Ok(None).
C26_Witness ==
    /\ input = <<>>
    /\ ops # <<>> /\ ops[Len(ops)] = "None"
    /\ Cardinality({i \in SinceLastPush(ops) : ops[i] = "Some"}) >= 4
    /\ Cardinality({i \in 1..Len(nal_log) : IsNalEvent(i)})
          = Cardinality(StartCodes(scanner.buffer))

\* what the caller can see of a sequence of access units
VisibleAll(aus) == [i \in 1..Len(aus) |-> Visible(aus[i])]

\* C27: the access units of drain() are exactly those that next_access_unit, called on the
\* same parser again and again until it returns Ok(None), going on after the calls that
\* return an error, returns.
C27_DrainYieldsAll ==
    Drained => VisibleAll(out[1]) = VisibleAll(PullUntilNone(arg[1].parser))

\* C28: Pps::parse, given a PPS with slice_group_map_type 6 and more than one slice group
\* whose pic_size_in_map_units_minus1 + 1 slice-group ids are coded with
\* ceil(log2(num_slice_groups)) bits each, succeeds and returns the num_ref_idx defaults
\* and the QP offsets that were coded behind the ids.
C28_SliceGroupIdsConsumed ==
    (arg # None /\ arg[1].fn = "Pps::parse" /\ out # None) =>
        /\ out[1].err = "Ok"
        /\ \A name \in {"num_slice_groups_minus1", "num_ref_idx_l0_default_active_minus1",
                        "num_ref_idx_l1_default_active_minus1", "pic_init_qp_minus26",
                        "chroma_qp_index_offset"} :
              out[1].pps[name] = arg[1].v[name]

(***************************************************************************)
(* A BitReader driven through its public operations.  arg holds the data   *)
(* the reader was built on, out the reader after the last operation and    *)
(* what that operation returned, ops the names of the operations so far.   *)
(* An error belongs to the call that returned it: the reader kept in out   *)
(* has err = "Ok" again.                                                   *)
(***************************************************************************)
MaxReaderData == 2

MaxReaderOps == 3

ReaderBytes == {128, 165}

ReaderData == UNION {[1..n -> ReaderBytes] : n \in 0..MaxReaderData}

ReaderCounts == {0, 1, 7, 9, 33}

SeekBitPos == {0, 7, 8, 255}

ReaderInit ==
    /\ freed = "kept"
    /\ scanner = AnnexBParserNew.scanner
    /\ au_builder = AnnexBParserNew.au_builder
    /\ sps_map = AnnexBParserNew.sps_map
    /\ pps_map = AnnexBParserNew.pps_map
    /\ buffer_data = AnnexBParserNew.buffer_data
    /\ stream = <<>>
    /\ chunks_left = 0
    /\ NoCalls
    /\ \E data \in ReaderData :
           /\ arg = Some([fn |-> "BitReader::new", data |-> data])
           /\ out = Some([r |-> BitReaderNew(data), res |-> "Ok"])

Reader == out[1].r

\* the operation `name` turned the reader into r2; reads tells whether it began with a
\* read_bit, which panics in a build with overflow checks when 7 - bit_pos is negative
ReaderOp(name, r2, reads) ==
    /\ Len(ops) < MaxReaderOps
    /\ out[1].res # "panic"
    /\ \/ out' = Some([r |-> [r2 EXCEPT !.err = "Ok"], res |-> r2.err])
       \/ /\ reads
          /\ BitPosOverflows(Reader)
          /\ out' = Some([r |-> Reader, res |-> "panic"])
    /\ ops' = Append(ops, name)
    /\ UNCHANGED <<scanner, au_builder, sps_map, pps_map, buffer_data, stream, freed, input,
                   chunks_left, emitted, spans, nal_log, last_call, twin, twin_agrees, arg>>

ReaderReadBit == ReaderOp("read_bit", read_bit(Reader).r, TRUE)

ReaderReadBits(n) == ReaderOp("read_bits", read_bits(Reader, n).r, n >= 1 /\ n <= 32)

ReaderSkipBits(n) == ReaderOp("skip_bits", skip_bits(Reader, n), n >= 1)

ReaderPeekBits(n) == ReaderOp("peek_bits", peek_bits(Reader, n).r, n >= 1 /\ n <= 32)

ReaderAlignToByte == ReaderOp("align_to_byte", align_to_byte(Reader), FALSE)

ReaderTrailingBits == ReaderOp("rbsp_trailing_bits", rbsp_trailing_bits(Reader), TRUE)

ReaderSeek(byte_pos, bit_pos) == ReaderOp("seek", seek(Reader, byte_pos, bit_pos), FALSE)

ReaderNext ==
    \/ ReaderReadBit
    \/ \E n \in ReaderCounts : ReaderReadBits(n)
    \/ \E n \in ReaderCounts : ReaderSkipBits(n)
    \/ \E n \in ReaderCounts : ReaderPeekBits(n)
    \/ ReaderAlignToByte
    \/ ReaderTrailingBits
    \/ \E byte_pos \in 0..MaxReaderData, bit_pos \in SeekBitPos : ReaderSeek(byte_pos, bit_pos)

ReaderSpec == ReaderInit /\ [][ReaderNext]_vars

\* C29: after any sequence of BitReader operations (seek calls accepted or rejected
\* included) the cursor has bit_pos in 0..7 and byte_pos <= the data length, and no
\* operation ends in anything but a value or an error
C29_CursorInRange ==
    (arg # None /\ arg[1].fn = "BitReader::new") =>
        /\ Reader.bit_pos \in 0..7
        /\ Reader.byte_pos <= Len(Reader.data)
        /\ out[1].res # "panic"

\* the same without the bit position: the byte position never passes the end
ReaderBytePosInRange ==
    (arg # None /\ arg[1].fn = "BitReader::new") => Reader.byte_pos <= Len(Reader.data)

\* a read_bit was called with the cursor outside a byte
ReaderOverflowed == arg # None /\ arg[1].fn = "BitReader::new" /\ out[1].res = "panic"

\* NalUnitType::as_u8
as_u8(nal) ==
    CASE nal.nal_type = "Unspecified" -> 0
      [] nal.nal_type = "NonIdrSlice" -> 1
      [] nal.nal_type = "DataPartitionA" -> 2
      [] nal.nal_type = "DataPartitionB" -> 3
      [] nal.nal_type = "DataPartitionC" -> 4
      [] nal.nal_type = "IdrSlice" -> 5
      [] nal.nal_type = "Sei" -> 6
      [] nal.nal_type = "Sps" -> 7
      [] nal.nal_type = "Pps" -> 8
      [] nal.nal_type = "Aud" -> 9
      [] nal.nal_type = "EndOfSeq" -> 10
      [] nal.nal_type = "EndOfStream" -> 11
      [] nal.nal_type = "Filler" -> 12
      [] nal.nal_type = "SpsExt" -> 13
      [] nal.nal_type = "Prefix" -> 14
      [] nal.nal_type = "SubsetSps" -> 15
      [] nal.nal_type = "DepthParameterSet" -> 16
      [] OTHER -> nal.raw_type

\* AccessUnit::to_annexb_bytes, called while the parser's buffer_data is v: the payload of
\* each NAL is read through the reference the parser stored in it
to_annexb_bytes(au, v) ==
    LET header(nal) == (nal.ref_idc % 4) * 32 + (as_u8(nal) % 32)
        bytes(nal) == (IF nal.start_code_len = 4 THEN StartCode4 ELSE StartCode3)
                          \o <<header(nal)>> \o Deref(v, nal)
    IN  Flatten([i \in 1..Len(au.nals) |-> bytes(au.nals[i])])

\* buffer_data as it was when the i-th access unit was returned.  When a boundary closed the
\* access unit, the NAL that closed it had just been appended (parser.rs:92) and is the
\* first NAL of the next access unit, so the allocation is the one that NAL points into;
\* the last access unit is returned when the scanner has no further NAL (parser.rs:107-113)
\* and nothing is appended after it.
\* The bytes are those of buffer_data now: it is only appended to.
BufferDataAtReturn(i) ==
    IF i < Len(emitted) THEN [buffer_data EXCEPT !.gen = emitted[i + 1].nals[1].at.gen]
    ELSE buffer_data

\* a start code is followed by the end of the stream or by another start code
HasEmptyNal(buf) ==
    \E i \in StartCodes(buf) :
        \/ i + 2 = Len(buf)
        \/ i + 3 \in StartCodes(buf)
        \/ buf[i + 3] = 0 /\ i + 4 \in StartCodes(buf)

\* the whole stream was pushed, then next_access_unit was called until Ok(None), no call
\* returned an error, and the stream begins with a start code and has no empty NAL
RoundTripCase ==
    /\ input = <<>>
    /\ PushedThenPulled(ops)
    /\ ops[Len(ops)] = "None"
    /\ StartCodes(stream) # {}
    /\ 1 \in StartCodes(stream) \/ (stream[1] = 0 /\ 2 \in StartCodes(stream))
    /\ ~HasEmptyNal(stream)

\* the concatenation of to_annexb_bytes() of the access units, each serialized when it is
\* returned, is the input byte for byte
RoundTrip ==
    Flatten([i \in 1..Len(emitted) |->
                 to_annexb_bytes(emitted[i], BufferDataAtReturn(i))]) = stream

\* C30: Annex-B round trip: for a stream that begins with a start code, has no empty NAL
\* and parses without error, the concatenation of to_annexb_bytes() of the emitted access
\* units in emission order reproduces the input byte for byte
C30_AnnexbRoundTrip == RoundTripCase => RoundTrip

\* the same where memory that buffer_data gave back still holds the bytes
RoundTripOfKeptBytes == (RoundTripCase /\ freed = "kept") => RoundTrip

\* a round-trip case with NALs of a reserved and an unspecified type code
RoundTripOfTypeStream == RoundTripCase /\ stream \in TypeStreams /\ freed = "kept"

====
